---- MODULE Spec2Model ----
(***************************************************************************)
(* Model of src/services/nestingService.ts: the 2D sheet packer            *)
(* (performSheetNesting, findBestPosition, canPlace) and the 1D bar packer *)
(* (performLinearNesting).                                                 *)
(*                                                                         *)
(* Numbers are integers (the source uses IEEE doubles; every quantity the  *)
(* model draws is a small integer, where double arithmetic is exact).      *)
(* A string (a grade, a raw material, a group key) is the sequence of its  *)
(* UTF-16 code units: "A-1" is <<65, 45, 49>>, written Str("A-1"), so that *)
(* the group key `${grade}-${thickness}`, key.split('-'), parseFloat and   *)
(* the for-in order of keys are computed as the source computes them.      *)
(* A Sheet object is identified by its id (its                             *)
(* place in availableSheets).  Weights (density) and part names are not    *)
(* modelled.  A percentage is the fraction num/den in lowest terms.        *)
(***************************************************************************)
EXTENDS Integers, Sequences, FiniteSets, TLC

VARIABLES
  call,                 \* which exported function runs: "sheet" or "linear"
  pc,                   \* position in the running function
  availableSheets, parts, partToPartDist, partToSheetDist, rotation,
  gi,                   \* position of the for-in loop over partGroups
  partsToPlace, di, sheetsUsedForThisDef,
  layouts, unplacedParts, totalSheetsUsed,
  stockLength, optimizationGoal, leftEndAllowance, rightEndAllowance,
  allCutParts, unplacedForGroup, bestCutsForThisBar, bestWaste,
  shuffleIter,          \* i, the counter of the shuffle loop (line 296)
  currentWaste,         \* the waste of the last trial (line 310); 0 outside the loop
  allLayouts, allUnplacedParts, layoutIndexCounter,
  result,
  randomCalls,          \* calls of Math.random() made by the running call
  unplacedRefs,         \* for each entry of unplacedParts (allUnplacedParts): the
                        \* place in parts of the caller's object the entry is, or
                        \* 0 for an object the function made
  groupRefs,            \* the same for the entries of unplacedForGroup
  run, firstResult      \* the caller: which call of two, and what the first returned

sheetVars == <<availableSheets, partToPartDist, partToSheetDist, rotation,
               partsToPlace, di, sheetsUsedForThisDef,
               layouts, unplacedParts, totalSheetsUsed>>

linearVars == <<stockLength, optimizationGoal, leftEndAllowance, rightEndAllowance,
                allCutParts, unplacedForGroup, bestCutsForThisBar, bestWaste, shuffleIter,
                currentWaste, allLayouts, allUnplacedParts, layoutIndexCounter, groupRefs>>

callerVars == <<run, firstResult>>

vars == <<call, pc, parts, gi, result, randomCalls, unplacedRefs,
          sheetVars, linearVars, callerVars>>

\* ---------------------------------------------------------------- bounds
MaxParts == 2
MaxQty == 2
MaxCuts == 4

\* ------------------------------------------------------------- constants
NONE == "None"
NINETY == "90 Only"
PRIORITIZE_SPEED == "Prioritize Speed"
MINIMIZE_WASTE == "Minimize Waste"
SHUFFLE_ITERATIONS == 50
\* The quantity the caller passes for a sheet without limit of supply is
\* Number.MAX_SAFE_INTEGER, 2^53 - 1. The packer only compares the count of
\* sheets used against it; the largest integer of the checker stands for it.
MAX_SAFE_INTEGER == 2147483647
null == [isNull |-> TRUE]

\* ------------------------------------------------------------ generic helpers
RECURSIVE SumSeq(_)
SumSeq(s) == IF s = <<>> THEN 0 ELSE Head(s) + SumSeq(Tail(s))

RECURSIVE Flatten(_)
Flatten(ss) == IF ss = <<>> THEN <<>> ELSE Head(ss) \o Flatten(Tail(ss))

\* ------------------------------------------------------------------ canPlace
OtherWidth(other) == IF other.rotated THEN other.length ELSE other.width
OtherHeight(other) == IF other.rotated THEN other.width ELSE other.length

\* Mutant: the part-to-part clearance is left out of the overlap test.
OverlapsNoGap(part, pos, other, ppDist) ==
  /\ pos.x < other.x + OtherWidth(other)
  /\ other.x < pos.x + part.width
  /\ pos.y < other.y + OtherHeight(other)
  /\ other.y < pos.y + part.height

Overlaps(part, pos, other, ppDist) ==
  /\ pos.x < other.x + OtherWidth(other) + ppDist
  /\ other.x < pos.x + part.width + ppDist
  /\ pos.y < other.y + OtherHeight(other) + ppDist
  /\ other.y < pos.y + part.height + ppDist

\* Mutant: the sheet clearance is checked at the near edges only.
canPlaceNoFarClearance(part, pos, sheet, placedParts, ppDist, psDist) ==
  /\ ~(pos.x < psDist \/ pos.y < psDist)
  /\ ~(pos.x + part.width > sheet.length)
  /\ ~(pos.y + part.height > sheet.width)
  /\ \A k \in 1..Len(placedParts) : ~Overlaps(part, pos, placedParts[k], ppDist)

\* Mutant: the parts already placed are not looked at.
canPlaceIgnoresPlaced(part, pos, sheet, placedParts, ppDist, psDist) ==
  /\ ~(pos.x < psDist \/ pos.y < psDist)
  /\ ~(pos.x + part.width > sheet.length - psDist)
  /\ ~(pos.y + part.height > sheet.width - psDist)

canPlace(part, pos, sheet, placedParts, ppDist, psDist) ==
  /\ ~(pos.x < psDist \/ pos.y < psDist)
  /\ ~(pos.x + part.width > sheet.length - psDist)
  /\ ~(pos.y + part.height > sheet.width - psDist)
  /\ \A k \in 1..Len(placedParts) : ~Overlaps(part, pos, placedParts[k], ppDist)

\* ---------------------------------------------------------- findBestPosition
\* Mutant: the corner of the sheet is not among the candidate points.
candidatePointsNoCorner(placedParts, ppDist, psDist) ==
  Flatten([k \in 1..Len(placedParts) |->
    LET p == placedParts[k] IN
    << [x |-> p.x + OtherWidth(p) + ppDist, y |-> p.y],
       [x |-> p.x, y |-> p.y + OtherHeight(p) + ppDist] >>])

candidatePoints(placedParts, ppDist, psDist) ==
  <<[x |-> psDist, y |-> psDist]>> \o
  Flatten([k \in 1..Len(placedParts) |->
    LET p == placedParts[k] IN
    << [x |-> p.x + OtherWidth(p) + ppDist, y |-> p.y],
       [x |-> p.x, y |-> p.y + OtherHeight(p) + ppDist] >>])

\* Mutant: the first feasible candidate is kept, whatever comes after.
ImprovesOnlyOnNull(point, bestPos) == bestPos = null

\* Mutant: a candidate at the coordinates of the incumbent replaces it.
ImprovesOnTie(point, bestPos) ==
  \/ bestPos = null
  \/ point.y < bestPos.y
  \/ (point.y = bestPos.y /\ point.x <= bestPos.x)

\* bestY and bestX are the coordinates of bestPos, and Infinity while bestPos
\* is null: the test of line 79 against Infinity is always true.
Improves(point, bestPos) ==
  \/ bestPos = null
  \/ point.y < bestPos.y
  \/ (point.y = bestPos.y /\ point.x < bestPos.x)

RECURSIVE ScanPoints(_, _, _, _, _, _, _, _, _)
ScanPoints(points, k, width, height, rotated, sheet, placedParts, dists, bestPos) ==
  IF k > Len(points) THEN bestPos
  ELSE
    LET point == points[k]
        ok == canPlace([width |-> width, height |-> height], point, sheet,
                       placedParts, dists[1], dists[2])
        next == IF ok /\ Improves(point, bestPos)
                THEN [x |-> point.x, y |-> point.y, rotated |-> rotated]
                ELSE bestPos
    IN ScanPoints(points, k + 1, width, height, rotated, sheet, placedParts, dists, next)

tryPlacing(width, height, rotated, sheet, placedParts, ppDist, psDist, bestPos) ==
  ScanPoints(candidatePoints(placedParts, ppDist, psDist), 1, width, height,
             rotated, sheet, placedParts, <<ppDist, psDist>>, bestPos)

\* Mutant: the rotated orientation is never tried.
findBestPositionUnrotatedOnly(part, sheet, placedParts, ppDist, psDist, rot) ==
  tryPlacing(part.width, part.length, FALSE, sheet, placedParts, ppDist, psDist, null)

findBestPosition(part, sheet, placedParts, ppDist, psDist, rot) ==
  LET unrotated == tryPlacing(part.width, part.length, FALSE, sheet,
                              placedParts, ppDist, psDist, null)
  IN IF rot # NONE
     THEN tryPlacing(part.length, part.width, TRUE, sheet,
                     placedParts, ppDist, psDist, unrotated)
     ELSE unrotated

\* ------------------------------------------------------- performSheetNesting
\* A string of the program is the sequence of its UTF-16 code units: "A-1"
\* is <<65, 45, 49>>. AsciiUpper holds the characters U+0020 to U+005F in
\* order and AsciiLower the characters U+0061 to U+007E.
AsciiUpper == " !\"#$%&'()*+,-./0123456789:;<=>?@ABCDEFGHIJKLMNOPQRSTUVWXYZ[\\]^_"

AsciiLower == "abcdefghijklmnopqrstuvwxyz{|}~"

\* The code unit of a character of AsciiUpper or AsciiLower.
CodeUnit(c) ==
  IF \E k \in 1..Len(AsciiUpper) : SubSeq(AsciiUpper, k, k) = c
  THEN 31 + CHOOSE k \in 1..Len(AsciiUpper) : SubSeq(AsciiUpper, k, k) = c
  ELSE 96 + CHOOSE k \in 1..Len(AsciiLower) : SubSeq(AsciiLower, k, k) = c

\* The program's string that a string literal of ASCII characters denotes.
Str(s) == [k \in 1..Len(s) |-> CodeUnit(SubSeq(s, k, k))]

HyphenMinus == CodeUnit("-")
PlusSign == CodeUnit("+")
FullStop == CodeUnit(".")
DigitZero == CodeUnit("0")
DigitNine == CodeUnit("9")

IsDigit(c) == c >= DigitZero /\ c <= DigitNine

DigitValue(c) == c - DigitZero

\* The decimal numeral of a natural number.
RECURSIVE Digits(_)
Digits(n) ==
  IF n < 10 THEN <<DigitZero + n>>
  ELSE Append(Digits(n \div 10), DigitZero + (n % 10))

\* Number to string, of an integer: what a template literal writes for it.
NumberToString(n) == IF n < 0 THEN <<HyphenMinus>> \o Digits(-n) ELSE Digits(n)

\* The value of a sequence of digits; 0 for none.
RECURSIVE DigitsValue(_)
DigitsValue(ds) ==
  IF ds = <<>> THEN 0
  ELSE DigitsValue(SubSeq(ds, 1, Len(ds) - 1)) * 10 + DigitValue(ds[Len(ds)])

\* The longest run of digits str starts with.
RECURSIVE DigitPrefix(_)
DigitPrefix(str) ==
  IF str = <<>> \/ ~IsDigit(str[1]) THEN <<>>
  ELSE <<str[1]>> \o DigitPrefix(Tail(str))

Drop(str, n) == SubSeq(str, n + 1, Len(str))

StartsWith(str, word) == Len(str) >= Len(word) /\ SubSeq(str, 1, Len(word)) = word

\* String.prototype.split with a separator of one character.
RECURSIVE Split(_, _)
Split(str, sep) ==
  IF \A k \in 1..Len(str) : str[k] # sep THEN <<str>>
  ELSE LET k == CHOOSE i \in 1..Len(str) :
                  str[i] = sep /\ \A j \in 1..(i - 1) : str[j] # sep
       IN <<SubSeq(str, 1, k - 1)>> \o Split(Drop(str, k), sep)

\* `${part.grade}-${part.thickness}`
GroupKey(part) == part.grade \o <<HyphenMinus>> \o NumberToString(part.thickness)

RECURSIVE GCD(_, _)
GCD(a, b) == IF b = 0 THEN a ELSE GCD(b, a % b)

RECURSIVE Pow10(_)
Pow10(n) == IF n <= 0 THEN 1 ELSE 10 * Pow10(n - 1)

\* White space that parseFloat skips at the start of its argument, the
\* StrWhiteSpaceChar of the language: U+0009 to U+000D, U+0020, U+00A0,
\* U+1680, U+2000 to U+200A, U+2028, U+2029, U+202F, U+205F, U+3000, U+FEFF.
WhiteSpace ==
  (9..13) \cup {32, 160, 5760} \cup (8192..8202) \cup
  {8232, 8233, 8239, 8287, 12288, 65279}

RECURSIVE TrimStart(_)
TrimStart(str) ==
  IF str # <<>> /\ str[1] \in WhiteSpace THEN TrimStart(Tail(str)) ELSE str

NaN == <<>>

\* A number as parseFloat returns it: the fraction num / den in lowest terms,
\* den > 0; <<1, 0>> and <<-1, 0>> are Infinity and -Infinity. The source
\* holds the double nearest to the fraction, which is the fraction itself for
\* the integers and the short numerals drawn here.
Number(num, den) ==
  IF den = 0 THEN <<num, 0>>
  ELSE LET g == GCD(IF num < 0 THEN -num ELSE num, den)
       IN <<num \div g, den \div g>>

\* The number mantissa * 10^scale.
Decimal(mantissa, scale) ==
  IF mantissa = 0 THEN Number(0, 1)
  ELSE IF scale >= 0 THEN Number(mantissa * Pow10(scale), 1)
  ELSE Number(mantissa, Pow10(-scale))

ExponentIndicator == {CodeUnit("e"), CodeUnit("E")}

InfinityLiteral == Str("Infinity")

\* The digits of an exponent, after its optional sign; 0 for none.
SignedDigits(str) ==
  IF str # <<>> /\ str[1] = HyphenMinus THEN -DigitsValue(DigitPrefix(Tail(str)))
  ELSE IF str # <<>> /\ str[1] = PlusSign THEN DigitsValue(DigitPrefix(Tail(str)))
  ELSE DigitsValue(DigitPrefix(str))

\* The exponent part that follows a mantissa: e or E, an optional sign and
\* digits; without digits there is no exponent part and the value is 0.
ExponentOf(rest) ==
  IF rest # <<>> /\ rest[1] \in ExponentIndicator THEN SignedDigits(Tail(rest)) ELSE 0

\* The decimal literal of the digits `whole`, the digits `fraction` after the
\* point, and what follows them; NaN when there is no digit at all.
ParseDecimal(whole, fraction, rest) ==
  IF whole = <<>> /\ fraction = <<>> THEN NaN
  ELSE Decimal(DigitsValue(whole \o fraction), ExponentOf(rest) - Len(fraction))

\* `whole` has been read; rest is what follows it.
ParseFraction(whole, rest) ==
  IF rest # <<>> /\ rest[1] = FullStop
  THEN ParseDecimal(whole, DigitPrefix(Tail(rest)),
                    Drop(rest, 1 + Len(DigitPrefix(Tail(rest)))))
  ELSE ParseDecimal(whole, <<>>, rest)

\* An unsigned literal: Infinity, or the longest prefix that is a decimal
\* literal.
ParseUnsigned(body) ==
  IF StartsWith(body, InfinityLiteral) THEN Number(1, 0)
  ELSE ParseFraction(DigitPrefix(body), Drop(body, Len(DigitPrefix(body))))

Negate(value) == IF value = NaN THEN NaN ELSE <<-value[1], value[2]>>

ParseSigned(str) ==
  IF str # <<>> /\ str[1] = HyphenMinus THEN Negate(ParseUnsigned(Tail(str)))
  ELSE IF str # <<>> /\ str[1] = PlusSign THEN ParseUnsigned(Tail(str))
  ELSE ParseUnsigned(str)

\* parseFloat: leading white space is skipped, then the longest prefix that
\* is a decimal literal (sign, digits, fraction, exponent) or a signed
\* Infinity is read; NaN when there is none.
parseFloat(str) == ParseSigned(TrimStart(str))

\* The keys of partGroups in for-in order: insertion order, as every key holds
\* a '-' and so is no array index.
RECURSIVE GroupKeys(_)
GroupKeys(ps) ==
  IF ps = <<>> THEN <<>>
  ELSE LET rest == GroupKeys(SubSeq(ps, 1, Len(ps) - 1))
           key == GroupKey(ps[Len(ps)])
       IN IF \E k \in 1..Len(rest) : rest[k] = key THEN rest ELSE Append(rest, key)

partGroups(ps, key) == SelectSeq(ps, LAMBDA p : GroupKey(p) = key)

\* Mutant: the definitions of a group are taken last first.
sheetDefsForGroupReversed(sheets, key) ==
  LET pieces == Split(key, HyphenMinus)
      grade == pieces[1]
      thicknessStr == pieces[2]
      thickness == parseFloat(thicknessStr)
      defs == SelectSeq(sheets, LAMBDA s : s.grade = grade /\ Number(s.thickness, 1) = thickness)
  IN [k \in 1..Len(defs) |-> defs[Len(defs) + 1 - k]]

\* const [grade, thicknessStr] = key.split('-'); the filter of line 127.
sheetDefsForGroup(sheets, key) ==
  LET pieces == Split(key, HyphenMinus)
      grade == pieces[1]
      thicknessStr == pieces[2]
      thickness == parseFloat(thicknessStr)
  IN SelectSeq(sheets, LAMBDA s : s.grade = grade /\ Number(s.thickness, 1) = thickness)

Area(p) == p.length * p.width

\* Array.prototype.sort is stable: sorted by area, largest first, elements
\* of one area in the order they had. The elements of the largest area come
\* first, then the others sorted the same way.
RECURSIVE SortByAreaDesc(_)
SortByAreaDesc(s) ==
  IF s = <<>> THEN <<>>
  ELSE LET areas == {Area(s[k]) : k \in 1..Len(s)}
           largest == CHOOSE a \in areas : \A b \in areas : a >= b
       IN SelectSeq(s, LAMBDA e : Area(e) = largest) \o
          SortByAreaDesc(SelectSeq(s, LAMBDA e : Area(e) # largest))

ExpandPart(p) ==
  [i \in 1..p.quantity |-> [p EXCEPT !.id = p.id * 1000 + (i - 1), !.quantity = 1]]

ExpandGroup(group) ==
  SortByAreaDesc(Flatten([k \in 1..Len(group) |-> ExpandPart(group[k])]))

MkPlaced(part, position) ==
  [id |-> part.id, originalId |-> part.originalId, length |-> part.length,
   width |-> part.width, thickness |-> part.thickness, grade |-> part.grade,
   quantity |-> part.quantity,
   x |-> position.x, y |-> position.y, rotated |-> position.rotated]

\* Mutant: once a part is on the sheet the rest of the pool is deferred
\* untried.
RECURSIVE PlaceLoopOnePart(_, _, _, _, _, _)
PlaceLoopOnePart(pool, k, sheetDef, cfg, placedParts, remainingParts) ==
  IF k > Len(pool)
  THEN [placedParts |-> placedParts, remainingParts |-> remainingParts]
  ELSE LET position == IF placedParts # <<>> THEN null
                       ELSE findBestPosition(pool[k], sheetDef, placedParts,
                                             cfg.ppDist, cfg.psDist, cfg.rotation)
       IN IF position # null
          THEN PlaceLoopOnePart(pool, k + 1, sheetDef, cfg,
                                Append(placedParts, MkPlaced(pool[k], position)),
                                remainingParts)
          ELSE PlaceLoopOnePart(pool, k + 1, sheetDef, cfg,
                                placedParts, Append(remainingParts, pool[k]))

\* The for loop of lines 159-167 over partsToPlace, from instance k on.
RECURSIVE PlaceLoop(_, _, _, _, _, _)
PlaceLoop(pool, k, sheetDef, cfg, placedParts, remainingParts) ==
  IF k > Len(pool)
  THEN [placedParts |-> placedParts, remainingParts |-> remainingParts]
  ELSE LET position == findBestPosition(pool[k], sheetDef, placedParts,
                                        cfg.ppDist, cfg.psDist, cfg.rotation)
       IN IF position # null
          THEN PlaceLoop(pool, k + 1, sheetDef, cfg,
                         Append(placedParts, MkPlaced(pool[k], position)), remainingParts)
          ELSE PlaceLoop(pool, k + 1, sheetDef, cfg,
                         placedParts, Append(remainingParts, pool[k]))

\* Line 180: the reduce over the layout's placed parts.
UsedArea(placedParts) ==
  SumSeq([k \in 1..Len(placedParts) |-> Area(placedParts[k])])

\* Mutant: the waste is taken to be the whole sheet.
WasteAreaWholeSheet(sheetArea, usedArea) == sheetArea

\* Line 181.
WasteArea(sheetArea, usedArea) == sheetArea - usedArea

\* The quotient num / den of two non-negative numbers, den > 0, as a fraction
\* in lowest terms (the source holds the double nearest to it).
Ratio(num, den) ==
  LET g == GCD(num, den) IN [num |-> num \div g, den |-> den \div g]

\* Line 182: sheetArea > 0 ? (wasteArea / sheetArea) * 100 : 0.
WastePercentage(wasteArea, sheetArea) ==
  IF sheetArea > 0 THEN Ratio(wasteArea * 100, sheetArea) ELSE Ratio(0, 1)

SheetKey(sheetDef) ==
  <<sheetDef.length, sheetDef.width, sheetDef.thickness, sheetDef.grade>>

BumpCount(counts, key) ==
  IF key \in DOMAIN counts
  THEN [counts EXCEPT ![key] = @ + 1]
  ELSE counts @@ (key :> 1)

\* The reduce of lines 200-211.
RECURSIVE ConsolidateSheet(_)
ConsolidateSheet(unplaced) ==
  IF unplaced = <<>> THEN <<>>
  ELSE LET acc == ConsolidateSheet(SubSeq(unplaced, 1, Len(unplaced) - 1))
           part == unplaced[Len(unplaced)]
           hits == {k \in 1..Len(acc) : acc[k].originalId = part.originalId}
       IN IF hits # {}
          THEN LET k == CHOOSE m \in hits : \A o \in hits : m <= o
               IN [acc EXCEPT ![k].quantity = @ + 1]
          ELSE Append(acc, [part EXCEPT !.quantity = 1])

\* The places in ps of the rows of partGroups[key]: line 130 spreads the row
\* objects themselves into unplacedParts.
partGroupRefs(ps, key) ==
  SelectSeq([k \in 1..Len(ps) |-> k], LAMBDA k : GroupKey(ps[k]) = key)

\* Mutant: the reduce pushes the part object itself to the accumulator.
SameObject(ref) == ref

\* Lines 206 and 367: the reduce pushes {...part}, an object of its own.
CopyOf(ref) == 0

\* The caller's rows after the reduce of lines 200-211: quantity is written to
\* the object pushed (line 206) and incremented on the object found (line
\* 204); a write to an object that is the caller's row changes that row.
\* acc holds, for each accumulated object, its originalId and what it is.
RECURSIVE SheetConsolidationWrites(_, _, _, _, _)
SheetConsolidationWrites(unplaced, refs, k, acc, rows) ==
  IF k > Len(unplaced) THEN rows
  ELSE
    LET part == unplaced[k]
        hits == {m \in 1..Len(acc) : acc[m].originalId = part.originalId}
    IN IF hits # {}
       THEN LET existing == acc[CHOOSE m \in hits : \A o \in hits : m <= o].obj
            IN SheetConsolidationWrites(unplaced, refs, k + 1, acc,
                 IF existing = 0 THEN rows
                 ELSE [rows EXCEPT ![existing].quantity = @ + 1])
       ELSE LET obj == CopyOf(refs[k])
            IN SheetConsolidationWrites(unplaced, refs, k + 1,
                 Append(acc, [originalId |-> part.originalId, obj |-> obj]),
                 IF obj = 0 THEN rows ELSE [rows EXCEPT ![obj].quantity = 1])

CurKey == GroupKeys(parts)[gi]
CurDefs == sheetDefsForGroup(availableSheets, CurKey)
Cfg == [ppDist |-> partToPartDist, psDist |-> partToSheetDist, rotation |-> rotation]

\* ------------------------------------------------------ performLinearNesting
\* Mutant: the right end allowance is forgotten.
usableNoRightAllowance == stockLength - leftEndAllowance

usableStockLength == stockLength - leftEndAllowance - rightEndAllowance

\* The names an object literal inherits from Object.prototype; the value
\* found under each is a function or an object, so it is truthy and has no
\* push.
ObjectPrototypeKeys ==
  { Str("constructor"),
    Str("__defineGetter__"),
    Str("__defineSetter__"),
    Str("hasOwnProperty"),
    Str("__lookupGetter__"),
    Str("__lookupSetter__"),
    Str("isPrototypeOf"),
    Str("propertyIsEnumerable"),
    Str("toString"),
    Str("valueOf"),
    Str("__proto__"),
    Str("toLocaleString") }

\* What the call raises.
TypeError == [threw |-> "TypeError"]

\* Lines 245-252: the reduce starts from {}, so for a rawMaterial that names
\* an inherited property acc[key] is truthy on the first visit, the array is
\* not created and acc[key].push is not a function.
partGroupsThrows(ps) == \E k \in 1..Len(ps) : ps[k].rawMaterial \in ObjectPrototypeKeys

\* The largest array index, 2^32 - 2, as a numeral.
MaxArrayIndex == Str("4294967294")

\* The order of two numerals without leading zeros.
NumeralLess(a, b) ==
  \/ Len(a) < Len(b)
  \/ /\ Len(a) = Len(b)
     /\ \E i \in 1..Len(a) : /\ DigitValue(a[i]) < DigitValue(b[i])
                             /\ \A j \in 1..(i - 1) : a[j] = b[j]

\* A property key that is an array index: the canonical numeral of an
\* integer in 0..2^32-2.
IsArrayIndex(key) ==
  /\ key # <<>>
  /\ \A k \in 1..Len(key) : IsDigit(key[k])
  /\ key[1] # DigitZero \/ Len(key) = 1
  /\ ~NumeralLess(MaxArrayIndex, key)

\* Array-index keys in ascending order (the keys are pairwise different).
RECURSIVE SortIndexKeys(_)
SortIndexKeys(keys) ==
  IF keys = <<>> THEN <<>>
  ELSE LET init == SortIndexKeys(SubSeq(keys, 1, Len(keys) - 1))
           e == keys[Len(keys)]
           n == Cardinality({k \in 1..Len(init) : NumeralLess(init[k], e)})
       IN SubSeq(init, 1, n) \o <<e>> \o SubSeq(init, n + 1, Len(init))

\* The order in which for-in visits the keys of an object whose keys were
\* created in the order `keys`: array indices first, ascending, then the
\* other keys in creation order.
ForInOrder(keys) ==
  SortIndexKeys(SelectSeq(keys, IsArrayIndex)) \o
  SelectSeq(keys, LAMBDA key : ~IsArrayIndex(key))

\* The raw materials in the order the reduce of lines 245-252 first meets
\* them.
RECURSIVE CreatedKeys(_)
CreatedKeys(ps) ==
  IF ps = <<>> THEN <<>>
  ELSE LET rest == CreatedKeys(SubSeq(ps, 1, Len(ps) - 1))
           key == ps[Len(ps)].rawMaterial
       IN IF \E k \in 1..Len(rest) : rest[k] = key THEN rest ELSE Append(rest, key)

\* Lines 245-255: the keys of partGroups as the for-in of line 255 visits
\* them, or the TypeError of the reduce.
LinearGroupKeys(ps) ==
  IF partGroupsThrows(ps) THEN TypeError ELSE ForInOrder(CreatedKeys(ps))

\* Mutant: every part is taken into every group.
partsInGroupAll(ps, rawMaterial) == ps

\* Lines 245-256: partGroups[rawMaterial].
partsInGroup(ps, rawMaterial) ==
  IF partGroupsThrows(ps) THEN TypeError
  ELSE SelectSeq(ps, LAMBDA p : p.rawMaterial = rawMaterial)

\* Mutant: the instanceId leaves out the index of the unit.
CutsOfPartSameInstance(p) ==
  [n \in 1..p.quantity |->
     [id |-> p.id, length |-> p.length, effectiveLength |-> p.effectiveLength,
      instanceId |-> <<p.id, 0>>, rawMaterial |-> p.rawMaterial]]

\* Lines 265-273; instanceId `${p.id}-${i}` is the pair <<p.id, i>>.
CutsOfPart(p) ==
  [n \in 1..p.quantity |->
     [id |-> p.id, length |-> p.length, effectiveLength |-> p.effectiveLength,
      instanceId |-> <<p.id, n - 1>>, rawMaterial |-> p.rawMaterial]]

\* Mutant: every part is expanded, also one longer than the usable length.
ExpandCutsAll(group, usable) ==
  Flatten([k \in 1..Len(group) |-> CutsOfPart(group[k])])

\* Lines 261-275: the cuts of the parts that can fit, and the parts that cannot.
ExpandCuts(group, usable) ==
  Flatten([k \in 1..Len(group) |->
    IF group[k].effectiveLength > usable THEN <<>> ELSE CutsOfPart(group[k])])

RejectedParts(group, usable) == SelectSeq(group, LAMBDA p : p.effectiveLength > usable)

\* Mutant: the comparator is reversed, smallest first.
RECURSIVE SortByLengthAsc(_)
SortByLengthAsc(s) ==
  IF s = <<>> THEN <<>>
  ELSE LET init == SortByLengthAsc(SubSeq(s, 1, Len(s) - 1))
           e == s[Len(s)]
           n == Cardinality({k \in 1..Len(init) :
                               init[k].effectiveLength <= e.effectiveLength})
       IN SubSeq(init, 1, n) \o <<e>> \o SubSeq(init, n + 1, Len(init))

\* Line 280: stable sort by effectiveLength, largest first.
RECURSIVE SortByLengthDesc(_)
SortByLengthDesc(s) ==
  IF s = <<>> THEN <<>>
  ELSE LET init == SortByLengthDesc(SubSeq(s, 1, Len(s) - 1))
           e == s[Len(s)]
           n == Cardinality({k \in 1..Len(init) :
                               init[k].effectiveLength >= e.effectiveLength})
       IN SubSeq(init, 1, n) \o <<e>> \o SubSeq(init, n + 1, Len(init))

UsedLength(cuts) == SumSeq([k \in 1..Len(cuts) |-> cuts[k].effectiveLength])

\* Mutant: the pass ends at the first cut that does not fit.
RECURSIVE GreedyCutsUntilMisfit(_, _, _, _)
GreedyCutsUntilMisfit(order, k, usable, cuts) ==
  IF k > Len(order) THEN cuts
  ELSE IF UsedLength(cuts) + order[k].effectiveLength <= usable
       THEN GreedyCutsUntilMisfit(order, k + 1, usable, Append(cuts, order[k]))
       ELSE cuts

\* Mutant: a cut that fills the bar exactly is not taken.
RECURSIVE GreedyCutsStrict(_, _, _, _)
GreedyCutsStrict(order, k, usable, cuts) ==
  IF k > Len(order) THEN cuts
  ELSE IF UsedLength(cuts) + order[k].effectiveLength < usable
       THEN GreedyCutsStrict(order, k + 1, usable, Append(cuts, order[k]))
       ELSE GreedyCutsStrict(order, k + 1, usable, cuts)

\* Lines 283-288 and 304-309: one pass over the order, taking what still fits.
RECURSIVE GreedyCuts(_, _, _, _)
GreedyCuts(order, k, usable, cuts) ==
  IF k > Len(order) THEN cuts
  ELSE IF UsedLength(cuts) + order[k].effectiveLength <= usable
       THEN GreedyCuts(order, k + 1, usable, Append(cuts, order[k]))
       ELSE GreedyCuts(order, k + 1, usable, cuts)

Swap(arr, a, b) == [arr EXCEPT ![a] = arr[b], ![b] = arr[a]]

\* Lines 297-300: the in-place shuffle, for j from the last index down to 1,
\* with draws[j] the value of Math.floor(Math.random() * (j + 1)) in 0..j
\* (indices of the source, one less than the model's).
RECURSIVE ShuffleFrom(_, _, _)
ShuffleFrom(arr, j, draws) ==
  IF j <= 0 THEN arr
  ELSE ShuffleFrom(Swap(arr, j + 1, draws[j] + 1), j - 1, draws)

\* The draws of one shuffle of n elements: draws[j] in 0..j for j in 1..n-1.
RECURSIVE Draws(_)
Draws(n) ==
  IF n <= 1 THEN {<<>>}
  ELSE {Append(d, k) : d \in Draws(n - 1), k \in 0..(n - 1)}

\* Every order one shuffle of arr can leave.
ShuffleOutcomes(arr) == {ShuffleFrom(arr, Len(arr) - 1, d) : d \in Draws(Len(arr))}

\* Lines 320-329: the remaining cuts counted by part id, in first-seen order.
RECURSIVE CountRemaining(_, _)
CountRemaining(cuts, group) ==
  IF cuts = <<>> THEN <<>>
  ELSE LET acc == CountRemaining(SubSeq(cuts, 1, Len(cuts) - 1), group)
           rcp == cuts[Len(cuts)]
           original == group[CHOOSE k \in 1..Len(group) :
                               /\ group[k].id = rcp.id
                               /\ \A m \in 1..(k - 1) : group[m].id # rcp.id]
           hits == {k \in 1..Len(acc) : acc[k].id = original.id}
       IN IF hits # {}
          THEN LET k == CHOOSE m \in hits : TRUE
               IN [acc EXCEPT ![k].quantity = @ + 1]
          ELSE Append(acc, [original EXCEPT !.quantity = 1])

\* The reduce of lines 362-370.
RECURSIVE ConsolidateLinear(_)
ConsolidateLinear(unplaced) ==
  IF unplaced = <<>> THEN <<>>
  ELSE LET acc == ConsolidateLinear(SubSeq(unplaced, 1, Len(unplaced) - 1))
           part == unplaced[Len(unplaced)]
           hits == {k \in 1..Len(acc) : acc[k].id = part.id}
       IN IF hits # {}
          THEN LET k == CHOOSE m \in hits : \A o \in hits : m <= o
               IN [acc EXCEPT ![k].quantity = @ + part.quantity]
          ELSE Append(acc, part)

\* The places in ps of the rows line 262 pushes to unplacedForGroup.
RejectedRefs(ps, rawMaterial, usable) ==
  SelectSeq([k \in 1..Len(ps) |-> k],
            LAMBDA k : ps[k].rawMaterial = rawMaterial /\ ps[k].effectiveLength > usable)

\* The caller's rows after the reduce of lines 362-370: quantity is added to
\* the object found (line 365); the object pushed is that of line 367.
RECURSIVE LinearConsolidationWrites(_, _, _, _, _)
LinearConsolidationWrites(unplaced, refs, k, acc, rows) ==
  IF k > Len(unplaced) THEN rows
  ELSE
    LET part == unplaced[k]
        quantity == IF refs[k] = 0 THEN part.quantity ELSE rows[refs[k]].quantity
        hits == {m \in 1..Len(acc) : acc[m].id = part.id}
    IN IF hits # {}
       THEN LET existing == acc[CHOOSE m \in hits : \A o \in hits : m <= o].obj
            IN LinearConsolidationWrites(unplaced, refs, k + 1, acc,
                 IF existing = 0 THEN rows
                 ELSE [rows EXCEPT ![existing].quantity = @ + quantity])
       ELSE LinearConsolidationWrites(unplaced, refs, k + 1,
              Append(acc, [id |-> part.id, obj |-> CopyOf(refs[k])]), rows)

CurMaterial == LinearGroupKeys(parts)[gi]

\* ------------------------------------------------------------------- inputs
Sheet(id, length, width, thickness, grade, quantity) ==
  [id |-> id, length |-> length, width |-> width, thickness |-> thickness,
   grade |-> grade, quantity |-> quantity]

Part(id, length, width, thickness, grade, quantity) ==
  [id |-> id, originalId |-> id, length |-> length, width |-> width,
   thickness |-> thickness, grade |-> grade, quantity |-> quantity]

GradeA == Str("A")
GradeA1 == Str("A-1")

RowLists(rows) == UNION {[1..n -> rows] : n \in 1..MaxParts}

\* Rows of several grades and thicknesses, one shape, no clearance.
GroupingRows == {<<1, 1>>} \X {<<GradeA, 1>>, <<GradeA1, 2>>, <<GradeA1, 1>>} \X (1..MaxQty)
GroupingSheets ==
  { <<Sheet(1, 2, 1, 1, GradeA, 1)>>,
    <<Sheet(1, 2, 1, 2, GradeA, 2)>>,
    <<Sheet(1, 1, 1, 1, GradeA, 1), Sheet(2, 2, 1, 1, GradeA, 2)>>,
    <<Sheet(1, 2, 1, 2, GradeA1, 1), Sheet(2, 2, 2, 1, GradeA, 1)>> }

\* Rows of one grade and thickness, several shapes, clearances and rotation.
PackingRows == {<<1, 1>>, <<2, 2>>, <<3, 1>>} \X {<<GradeA, 1>>} \X (1..MaxQty)
PackingSheets ==
  { <<Sheet(1, 6, 3, 1, GradeA, 1)>>,
    <<Sheet(1, 2, 2, 1, GradeA, 2)>>,
    <<Sheet(1, 1, 1, 1, GradeA, 2), Sheet(2, 4, 4, 1, GradeA, 1)>>,
    <<Sheet(1, 4, 4, 1, GradeA, 1), Sheet(2, 3, 2, 1, GradeA, 2)>> }

\* Rows of a long and of a wide shape on a narrow sheet, rotation allowed: a
\* wide part fits unrotated only above a long one, and rotated beside it.
RotationRows == {<<3, 1>>, <<1, 2>>} \X {<<GradeA, 1>>} \X (1..MaxQty)
RotationSheets == { <<Sheet(1, 2, 4, 1, GradeA, 2)>> }

\* Sheets without limit of supply, as the forecaster passes every sheet: one
\* that takes the small shapes only, and one that takes none before one that
\* takes every shape.
UnlimitedSheets ==
  { <<Sheet(1, 2, 2, 1, GradeA, MAX_SAFE_INTEGER)>>,
    <<Sheet(1, 1, 1, 1, GradeA, MAX_SAFE_INTEGER),
      Sheet(2, 3, 2, 1, GradeA, MAX_SAFE_INTEGER)>> }

MkParts(rows) ==
  [i \in 1..Len(rows) |->
     Part(i, rows[i][1][1], rows[i][1][2], rows[i][2][2], rows[i][2][1], rows[i][3])]

\* One sheet of length 1000 and width 500, one part of length 400 and width
\* 300, no clearance, no rotation.
ScenarioA ==
  { [availableSheets |-> <<Sheet(1, 1000, 500, 1, GradeA, q)>>,
     parts |-> <<Part(1, 400, 300, 1, GradeA, 1)>>, partToPartDist |-> 0,
     partToSheetDist |-> 0, rotation |-> NONE] : q \in 1..MaxQty }

\* One part of length 450 and width 100 with rotation allowed, on a sheet of
\* length 300 and width 500 and on a sheet of length 500 and width 300.
ScenarioB ==
  { [availableSheets |-> <<Sheet(1, d[1], d[2], 1, GradeA, 1)>>,
     parts |-> <<Part(1, 450, 100, 1, GradeA, 1)>>, partToPartDist |-> 0,
     partToSheetDist |-> 0, rotation |-> NINETY] : d \in {<<300, 500>>, <<500, 300>>} }

\* A sheet of 4 by 4 with rotation allowed: a square of 2, three strips of 3
\* by 1 and a square of 1. The third strip is tried before the small square
\* is placed.
LateCorner ==
  { [availableSheets |-> <<Sheet(1, 4, 4, 1, GradeA, q)>>,
     parts |-> <<Part(1, 1, 1, 1, GradeA, 1), Part(2, 2, 2, 1, GradeA, 1),
                 Part(3, 3, 1, 1, GradeA, 3)>>,
     partToPartDist |-> 0, partToSheetDist |-> 0, rotation |-> NINETY] :
       q \in 1..MaxQty }

SheetInputs ==
  { [availableSheets |-> s, parts |-> MkParts(r), partToPartDist |-> 0,
     partToSheetDist |-> 0, rotation |-> NONE] :
       s \in GroupingSheets, r \in RowLists(GroupingRows) }
  \cup
  { [availableSheets |-> s, parts |-> MkParts(r), partToPartDist |-> c[1],
     partToSheetDist |-> c[2], rotation |-> c[3]] :
       s \in PackingSheets, r \in RowLists(PackingRows),
       c \in {0, 1} \X {0, 1} \X {NONE, NINETY} }
  \cup
  { [availableSheets |-> s, parts |-> MkParts(r), partToPartDist |-> 0,
     partToSheetDist |-> 0, rotation |-> NINETY] :
       s \in RotationSheets, r \in RowLists(RotationRows) }
  \cup
  { [availableSheets |-> s, parts |-> MkParts(r), partToPartDist |-> 0,
     partToSheetDist |-> 0, rotation |-> NONE] :
       s \in UnlimitedSheets, r \in RowLists(PackingRows) }
  \cup ScenarioA \cup ScenarioB \cup LateCorner

LinearPart(id, rawMaterial, length, quantity, effectiveLength) ==
  [id |-> id, rawMaterial |-> rawMaterial, length |-> length,
   quantity |-> quantity, effectiveLength |-> effectiveLength]

LinearRows == {<<Str("X"), 1>>, <<Str("X"), 2>>, <<Str("X"), 4>>, <<Str("Y"), 2>>}

\* Lists of rows of pairwise different (rawMaterial, length), of at most
\* `budget` units in all.
RECURSIVE LinearRowLists(_, _)
LinearRowLists(budget, avail) ==
  {<<>>} \cup
  UNION { { <<<<c[1], c[2]>>>> \o rest : rest \in LinearRowLists(budget - c[2], avail \ {c[1]}) } :
          c \in avail \X (1..budget) }

\* Lines of the csv with a quantity of 0: the parser pushes no part for them
\* and counts them in the index, so that the ids of the parts skip a number.
SkippedLines ==
  { << <<<<Str("X"), 1>>, 0>>, <<<<Str("X"), 2>>, q>> >> : q \in 1..MaxQty }
  \cup
  { << <<<<Str("X"), 2>>, 1>>, <<<<Str("Y"), 2>>, 0>>, <<<<Str("X"), 4>>, q>> >> :
      q \in 1..MaxQty }

\* Lines of the csv the parser reports: a length of 0, a negative quantity,
\* no raw material.
RejectedLines ==
  { << <<<<Str("X"), 0>>, 1>> >>,
    << <<<<Str("X"), 2>>, 1>>, <<<<Str("Y"), 2>>, -1>> >>,
    << <<<<Str(" "), 2>>, 1>>, <<<<Str("X"), 2>>, 1>> >> }

\* String.prototype.trim: white space is dropped at both ends.
RECURSIVE TrimEnd(_)
TrimEnd(str) ==
  IF str # <<>> /\ str[Len(str)] \in WhiteSpace
  THEN TrimEnd(SubSeq(str, 1, Len(str) - 1)) ELSE str

Trim(str) == TrimEnd(TrimStart(str))

\* The fields of line k of the csv (lines 118-127), counted from 0. A line
\* is <<<<rawMaterial, length>>, quantity>>: it has three fields, and its
\* second and third field are numerals, read here as their numbers.
LineFields(rows, k) ==
  [i |-> k - 1, rawMaterial |-> Trim(rows[k][1][1]), length |-> rows[k][1][2],
   quantity |-> rows[k][2]]

\* Line 138: the guard on the numbers of a line.
OutOfRange(line) == line.length <= 0 \/ line.quantity < 0

\* Lines 129-141: the line is reported and pushes no part.
Reported(line) == line.rawMaterial = <<>> \/ OutOfRange(line)

\* The message of lines 130 and 139 for a reported line.
ErrorOf(line) ==
  [line |-> line.i + 1,
   message |-> IF line.rawMaterial = <<>> THEN "Raw material is missing."
               ELSE "Length must be positive and quantity non-negative."]

\* parseLinearParts (lines 110-147): a line that is reported adds an error;
\* a line that is not and has a quantity above 0 adds a part, whose id is the
\* index of the line, from 0, and whose effectiveLength is length +
\* allowance; a line of quantity 0 adds nothing.
parseLinearParts(rows, allowance) ==
  LET lines == [k \in 1..Len(rows) |-> LineFields(rows, k)]
      pushed == SelectSeq(lines, LAMBDA l : ~Reported(l) /\ l.quantity > 0)
      reported == SelectSeq(lines, Reported)
  IN [parts |-> [k \in 1..Len(pushed) |->
                   LinearPart(pushed[k].i, pushed[k].rawMaterial, pushed[k].length,
                              pushed[k].quantity, pushed[k].length + allowance)],
      errors |-> [k \in 1..Len(reported) |-> ErrorOf(reported[k])]]

\* The csv texts of the page, as lists of lines.
CsvLines == LinearRowLists(MaxCuts, LinearRows) \cup SkippedLines \cup RejectedLines

\* The lists of parts the page passes to performLinearNesting, with a kerf
\* of 1 and parts in mm: when the parser reports an error no call is made.
ParsedParts ==
  { parseLinearParts(rows, 1).parts :
      rows \in {r \in CsvLines : parseLinearParts(r, 1).errors = <<>>} }

\* Stock of 6000, no allowance, no kerf: two parts of 2000 and one of 1000 of
\* one raw material.
ScenarioC ==
  { [stockLength |-> 6000,
     parts |-> <<LinearPart(0, Str("X"), 2000, 2, 2000), LinearPart(1, Str("X"), 1000, 1, 1000)>>,
     optimizationGoal |-> g, leftEndAllowance |-> 0, rightEndAllowance |-> 0] :
       g \in {PRIORITIZE_SPEED, MINIMIZE_WASTE} }

\* Stock of 9, no allowance: three parts of 5 and three of 3 of one raw
\* material, which first-fit-decreasing cuts from three bars.
ThreesAndFives ==
  { [stockLength |-> 9,
     parts |-> <<LinearPart(0, Str("X"), 5, 3, 5), LinearPart(1, Str("X"), 3, 3, 3)>>,
     optimizationGoal |-> g, leftEndAllowance |-> 0, rightEndAllowance |-> 0] :
       g \in {PRIORITIZE_SPEED, MINIMIZE_WASTE} }

\* Raw materials named by numbers (steel grades) next to one named by
\* letters: for-in visits 304, 316, MS.
NumberedMaterials ==
  { [stockLength |-> 6,
     parts |-> <<LinearPart(0, Str("MS"), 2, 1, 3),
                 LinearPart(1, Str("316"), 2, q, 3),
                 LinearPart(2, Str("304"), 4, 1, 5)>>,
     optimizationGoal |-> g, leftEndAllowance |-> 0, rightEndAllowance |-> 0] :
       q \in 1..MaxQty, g \in {PRIORITIZE_SPEED, MINIMIZE_WASTE} }

\* A raw material that names a property every object inherits.
InheritedNames ==
  { [stockLength |-> 6,
     parts |-> <<LinearPart(0, Str("X"), 2, 1, 3), LinearPart(1, m, 2, 1, 3)>>,
     optimizationGoal |-> g, leftEndAllowance |-> 0, rightEndAllowance |-> 0] :
       m \in ObjectPrototypeKeys, g \in {PRIORITIZE_SPEED, MINIMIZE_WASTE} }

LinearInputs ==
  { [stockLength |-> 6, parts |-> ps, optimizationGoal |-> g,
     leftEndAllowance |-> a[1], rightEndAllowance |-> a[2]] :
       ps \in ParsedParts,
       g \in {PRIORITIZE_SPEED, MINIMIZE_WASTE},
       a \in {<<1, 0>>, <<1, 1>>} }
  \cup
  { [stockLength |-> 1000, parts |-> <<LinearPart(0, Str("X"), 1200, 1, 1200)>>,
     optimizationGoal |-> g, leftEndAllowance |-> 0, rightEndAllowance |-> 0] :
       g \in {PRIORITIZE_SPEED, MINIMIZE_WASTE} }
  \cup ScenarioC \cup ThreesAndFives \cup NumberedMaterials \cup InheritedNames

LinearInit ==
  \E in \in LinearInputs :
    /\ call = "linear"
    /\ pc = "group"
    /\ parts = in.parts
    /\ stockLength = in.stockLength
    /\ optimizationGoal = in.optimizationGoal
    /\ leftEndAllowance = in.leftEndAllowance
    /\ rightEndAllowance = in.rightEndAllowance
    /\ gi = 1
    /\ allCutParts = <<>> /\ unplacedForGroup = <<>>
    /\ bestCutsForThisBar = <<>> /\ bestWaste = 0 /\ shuffleIter = 0
    /\ currentWaste = 0
    /\ allLayouts = <<>> /\ allUnplacedParts = <<>> /\ layoutIndexCounter = 1
    /\ result = null
    /\ randomCalls = 0 /\ run = 1 /\ firstResult = null
    /\ unplacedRefs = <<>> /\ groupRefs = <<>>
    /\ availableSheets = <<>> /\ partToPartDist = 0 /\ partToSheetDist = 0
    /\ rotation = NONE
    /\ partsToPlace = <<>> /\ di = 1 /\ sheetsUsedForThisDef = 0
    /\ layouts = <<>> /\ unplacedParts = <<>> /\ totalSheetsUsed = <<>>

SheetInit ==
  \E in \in SheetInputs :
    /\ call = "sheet"
    /\ pc = "group"
    /\ availableSheets = in.availableSheets
    /\ parts = in.parts
    /\ partToPartDist = in.partToPartDist
    /\ partToSheetDist = in.partToSheetDist
    /\ rotation = in.rotation
    /\ gi = 1
    /\ partsToPlace = <<>>
    /\ di = 1
    /\ sheetsUsedForThisDef = 0
    /\ layouts = <<>>
    /\ unplacedParts = <<>>
    /\ totalSheetsUsed = <<>>
    /\ result = null
    /\ randomCalls = 0 /\ run = 1 /\ firstResult = null
    /\ unplacedRefs = <<>> /\ groupRefs = <<>>
    /\ stockLength = 0 /\ optimizationGoal = PRIORITIZE_SPEED
    /\ leftEndAllowance = 0 /\ rightEndAllowance = 0
    /\ allCutParts = <<>> /\ unplacedForGroup = <<>>
    /\ bestCutsForThisBar = <<>> /\ bestWaste = 0 /\ shuffleIter = 0
    /\ currentWaste = 0
    /\ allLayouts = <<>> /\ allUnplacedParts = <<>> /\ layoutIndexCounter = 1

\* ------------------------------------------------------------------ actions
inputsUnchanged ==
  UNCHANGED <<call, parts, availableSheets, partToPartDist, partToSheetDist, rotation,
              randomCalls, linearVars, callerVars>>

\* The return statement leaves the arguments other than the part objects.
sheetReturnUnchanged ==
  UNCHANGED <<call, availableSheets, partToPartDist, partToSheetDist, rotation,
              randomCalls, linearVars, callerVars>>

\* Lines 123-132: a group with no sheet definition goes to unplacedParts as is.
GroupWithoutSheets ==
  /\ call = "sheet" /\ pc = "group" /\ gi <= Len(GroupKeys(parts))
  /\ Len(CurDefs) = 0
  /\ unplacedParts' = unplacedParts \o partGroups(parts, CurKey)
  /\ unplacedRefs' = unplacedRefs \o partGroupRefs(parts, CurKey)
  /\ gi' = gi + 1
  /\ UNCHANGED <<pc, partsToPlace, di, sheetsUsedForThisDef, layouts,
                 totalSheetsUsed, result>>
  /\ inputsUnchanged

\* Lines 123-136: expansion into unit instances, sorted by area.
GroupExpand ==
  /\ call = "sheet" /\ pc = "group" /\ gi <= Len(GroupKeys(parts))
  /\ Len(CurDefs) # 0
  /\ partsToPlace' = ExpandGroup(partGroups(parts, CurKey))
  /\ di' = 1
  /\ pc' = "def"
  /\ UNCHANGED <<gi, sheetsUsedForThisDef, layouts, unplacedParts, unplacedRefs,
                 totalSheetsUsed, result>>
  /\ inputsUnchanged

\* Lines 138-142: the next sheet definition of the group.
NextSheetDef ==
  /\ call = "sheet" /\ pc = "def"
  /\ di <= Len(CurDefs) /\ Len(partsToPlace) # 0
  /\ sheetsUsedForThisDef' = 0
  /\ pc' = "sheet"
  /\ UNCHANGED <<gi, partsToPlace, di, layouts, unplacedParts, unplacedRefs,
                 totalSheetsUsed, result>>
  /\ inputsUnchanged

\* Mutant: a layout is committed whatever was placed on it.
AbandonedNever(partsPlacedOnThisSheet) == FALSE

\* Line 169: nothing could be placed on the fresh sheet.
Abandoned(partsPlacedOnThisSheet) == partsPlacedOnThisSheet = 0

\* Lines 144-191: one pass of the while loop, which opens one sheet.
OpenSheet ==
  /\ call = "sheet" /\ pc = "sheet"
  /\ Len(partsToPlace) > 0 /\ sheetsUsedForThisDef < CurDefs[di].quantity
  /\ \E sheetDef \in {CurDefs[di]} :
     \E filled \in {PlaceLoop(partsToPlace, 1, sheetDef, Cfg, <<>>, <<>>)} :
     LET partsPlacedOnThisSheet == Len(filled.placedParts)
         sheetArea == sheetDef.length * sheetDef.width
         usedArea == UsedArea(filled.placedParts)
         wasteArea == WasteArea(sheetArea, usedArea)
         layout == [sheet |-> sheetDef,
                    sheetIndex |-> Len(layouts) + 1,
                    placedParts |-> filled.placedParts,
                    usedArea |-> usedArea,
                    wasteArea |-> wasteArea,
                    wastePercentage |-> WastePercentage(wasteArea, sheetArea)]
     IN IF Abandoned(partsPlacedOnThisSheet)
        THEN /\ di' = di + 1
             /\ pc' = "def"
             /\ UNCHANGED <<partsToPlace, sheetsUsedForThisDef, layouts, totalSheetsUsed>>
        ELSE /\ partsToPlace' = SortByAreaDesc(filled.remainingParts)
             /\ sheetsUsedForThisDef' = sheetsUsedForThisDef + 1
             /\ layouts' = Append(layouts, layout)
             /\ totalSheetsUsed' = BumpCount(totalSheetsUsed, SheetKey(sheetDef))
             /\ UNCHANGED <<di, pc>>
  /\ UNCHANGED <<gi, unplacedParts, unplacedRefs, result>>
  /\ inputsUnchanged

\* Line 144: the while condition fails; on to the next definition.
SheetLoopExit ==
  /\ call = "sheet" /\ pc = "sheet"
  /\ ~(Len(partsToPlace) > 0 /\ sheetsUsedForThisDef < CurDefs[di].quantity)
  /\ di' = di + 1
  /\ pc' = "def"
  /\ UNCHANGED <<gi, partsToPlace, sheetsUsedForThisDef, layouts, unplacedParts,
                 unplacedRefs, totalSheetsUsed, result>>
  /\ inputsUnchanged

\* Lines 138-139 and 194-196: the definitions are used up, or no part is left.
EndGroup ==
  /\ call = "sheet" /\ pc = "def"
  /\ ~(di <= Len(CurDefs) /\ Len(partsToPlace) # 0)
  /\ unplacedParts' = unplacedParts \o partsToPlace
  /\ unplacedRefs' = unplacedRefs \o [k \in 1..Len(partsToPlace) |-> 0]
  /\ partsToPlace' = <<>>
  /\ gi' = gi + 1
  /\ pc' = "group"
  /\ UNCHANGED <<di, sheetsUsedForThisDef, layouts, totalSheetsUsed, result>>
  /\ inputsUnchanged

\* Lines 199-229: consolidation, totals and the returned object.
SheetReturn ==
  /\ call = "sheet" /\ pc = "group" /\ gi > Len(GroupKeys(parts))
  /\ result' = [layouts |-> layouts,
                unplacedParts |-> ConsolidateSheet(unplacedParts),
                totalSheetsUsed |-> totalSheetsUsed,
                totalUsedArea |-> SumSeq([k \in 1..Len(layouts) |-> layouts[k].usedArea]),
                totalSheetArea |-> SumSeq([k \in 1..Len(layouts) |->
                                    layouts[k].sheet.length * layouts[k].sheet.width])]
  /\ pc' = "done"
  /\ parts' = SheetConsolidationWrites(unplacedParts, unplacedRefs, 1, <<>>, parts)
  /\ UNCHANGED <<gi, partsToPlace, di, sheetsUsedForThisDef, layouts, unplacedParts,
                 unplacedRefs, totalSheetsUsed>>
  /\ sheetReturnUnchanged

SheetNext ==
  \/ GroupWithoutSheets
  \/ GroupExpand
  \/ NextSheetDef
  \/ OpenSheet
  \/ SheetLoopExit
  \/ EndGroup
  \/ SheetReturn

SheetSpec == SheetInit /\ [][SheetNext]_vars

linearInputsUnchanged ==
  UNCHANGED <<call, parts, stockLength, optimizationGoal, leftEndAllowance,
              rightEndAllowance, sheetVars, callerVars>>

\* The return statement leaves the arguments other than the part objects.
linearReturnUnchanged ==
  UNCHANGED <<call, stockLength, optimizationGoal, leftEndAllowance,
              rightEndAllowance, sheetVars, callerVars>>

\* Lines 245-252: the grouping raises a TypeError and the call ends without
\* a result.
LinearThrow ==
  /\ call = "linear" /\ pc = "group" /\ partGroupsThrows(parts)
  /\ pc' = "threw"
  /\ UNCHANGED <<gi, allCutParts, unplacedForGroup, groupRefs, bestCutsForThisBar,
                 bestWaste, shuffleIter, currentWaste, allLayouts, allUnplacedParts,
                 unplacedRefs, layoutIndexCounter, result>>
  /\ UNCHANGED randomCalls
  /\ linearInputsUnchanged

\* Lines 255-275: immediate rejection and expansion of one raw-material group.
LinearStartGroup ==
  /\ call = "linear" /\ pc = "group" /\ ~partGroupsThrows(parts)
  /\ gi <= Len(LinearGroupKeys(parts))
  /\ allCutParts' = ExpandCuts(partsInGroup(parts, CurMaterial), usableStockLength)
  /\ unplacedForGroup' = RejectedParts(partsInGroup(parts, CurMaterial), usableStockLength)
  /\ groupRefs' = RejectedRefs(parts, CurMaterial, usableStockLength)
  /\ pc' = "bar"
  /\ UNCHANGED <<gi, bestCutsForThisBar, bestWaste, shuffleIter, currentWaste,
                 allLayouts, allUnplacedParts, unplacedRefs, layoutIndexCounter, result>>
  /\ UNCHANGED randomCalls
  /\ linearInputsUnchanged

\* Mutant: the trials run in every mode.
ShuffleAlways == Len(allCutParts) > 1

\* Line 292: the trials run in waste-minimization mode, on more than one cut.
ShuffleWanted == optimizationGoal = MINIMIZE_WASTE /\ Len(allCutParts) > 1

\* Mutant: the comparison of line 312 is reversed.
TrialWinsReversed(waste, best) == waste > best

\* Mutant: a trial of equal waste replaces the incumbent as well.
TrialWinsOnTie(waste, best) == waste <= best

\* Line 312: a trial replaces the incumbent on strictly lower waste.
TrialWins(waste, best) == waste < best

\* Lines 277-292: the first-fit-decreasing baseline of one bar.
Baseline ==
  /\ call = "linear" /\ pc = "bar" /\ Len(allCutParts) > 0
  /\ LET sortedRemaining == SortByLengthDesc(allCutParts)
         greedyCuts == GreedyCuts(sortedRemaining, 1, usableStockLength, <<>>)
     IN /\ bestCutsForThisBar' = greedyCuts
        /\ bestWaste' = usableStockLength - UsedLength(greedyCuts)
  /\ shuffleIter' = 0
  /\ currentWaste' = 0
  /\ pc' = IF ShuffleWanted THEN "shuffle" ELSE "commit"
  /\ UNCHANGED <<gi, allCutParts, unplacedForGroup, groupRefs, allLayouts,
                 allUnplacedParts, unplacedRefs, layoutIndexCounter, result>>
  /\ UNCHANGED randomCalls
  /\ linearInputsUnchanged

\* Lines 296-316: one trial. tempRemainingParts holds the cuts of allCutParts
\* in the order the earlier shuffles left; as the draws of one shuffle reach
\* every order from any order, the trial shuffles allCutParts.
ShuffleTrial ==
  /\ call = "linear" /\ pc = "shuffle" /\ shuffleIter < SHUFFLE_ITERATIONS
  /\ \E currentCuts \in { GreedyCuts(tempRemainingParts, 1, usableStockLength, <<>>) :
                              tempRemainingParts \in ShuffleOutcomes(allCutParts) } :
       /\ currentWaste' = usableStockLength - UsedLength(currentCuts)
       /\ IF TrialWins(currentWaste', bestWaste)
          THEN /\ bestWaste' = currentWaste'
               /\ bestCutsForThisBar' = currentCuts
          ELSE UNCHANGED <<bestWaste, bestCutsForThisBar>>
  /\ shuffleIter' = shuffleIter + 1
  /\ pc' = IF shuffleIter + 1 < SHUFFLE_ITERATIONS THEN "shuffle" ELSE "commit"
  /\ UNCHANGED <<gi, allCutParts, unplacedForGroup, groupRefs, allLayouts,
                 allUnplacedParts, unplacedRefs, layoutIndexCounter, result>>
  /\ randomCalls' = randomCalls + (Len(allCutParts) - 1)
  /\ linearInputsUnchanged

\* Mutant: the cuts of the committed bar stay in the pool.
CommitBarKeepsPool ==
  /\ call = "linear" /\ pc = "commit"
  /\ allLayouts' = Append(allLayouts,
         [stockIndex |-> layoutIndexCounter,
          stockLength |-> stockLength,
          cuts |-> bestCutsForThisBar,
          usedLength |-> UsedLength(bestCutsForThisBar),
          wasteLength |-> 0,
          rawMaterial |-> CurMaterial])
  /\ layoutIndexCounter' = layoutIndexCounter + 1
  /\ pc' = "bar"
  /\ currentWaste' = 0
  /\ UNCHANGED <<gi, allUnplacedParts, unplacedRefs, allCutParts, unplacedForGroup,
                 groupRefs, bestCutsForThisBar, bestWaste, shuffleIter, result>>
  /\ UNCHANGED randomCalls
  /\ linearInputsUnchanged

\* Lines 319-346: the best bar is committed; an empty best bar ends the group
\* with every remaining cut unplaced (the break then runs line 347).
CommitBar ==
  /\ call = "linear" /\ pc = "commit"
  /\ IF Len(bestCutsForThisBar) = 0
     THEN /\ allUnplacedParts' = allUnplacedParts \o unplacedForGroup \o
                 CountRemaining(allCutParts, partsInGroup(parts, CurMaterial))
          /\ unplacedRefs' = unplacedRefs \o groupRefs \o
                 [k \in 1..Len(CountRemaining(allCutParts,
                                   partsInGroup(parts, CurMaterial))) |-> 0]
          /\ gi' = gi + 1
          /\ pc' = "group"
          /\ UNCHANGED <<allLayouts, layoutIndexCounter, allCutParts>>
     ELSE /\ allLayouts' = Append(allLayouts,
                 [stockIndex |-> layoutIndexCounter,
                  stockLength |-> stockLength,
                  cuts |-> bestCutsForThisBar,
                  usedLength |-> UsedLength(bestCutsForThisBar),
                  wasteLength |-> 0,
                  rawMaterial |-> CurMaterial])
          /\ layoutIndexCounter' = layoutIndexCounter + 1
          /\ LET placedInstanceIds ==
                   {bestCutsForThisBar[k].instanceId : k \in 1..Len(bestCutsForThisBar)}
             IN allCutParts' = SelectSeq(allCutParts,
                                 LAMBDA p : p.instanceId \notin placedInstanceIds)
          /\ pc' = "bar"
          /\ UNCHANGED <<gi, allUnplacedParts, unplacedRefs>>
  /\ currentWaste' = 0
  /\ UNCHANGED <<unplacedForGroup, groupRefs, bestCutsForThisBar, bestWaste,
                 shuffleIter, result>>
  /\ UNCHANGED randomCalls
  /\ linearInputsUnchanged

\* Lines 277 and 347: no cut is left; the group's rejected parts are recorded.
LinearEndGroup ==
  /\ call = "linear" /\ pc = "bar" /\ Len(allCutParts) = 0
  /\ allUnplacedParts' = allUnplacedParts \o unplacedForGroup
  /\ unplacedRefs' = unplacedRefs \o groupRefs
  /\ gi' = gi + 1
  /\ pc' = "group"
  /\ UNCHANGED <<allCutParts, unplacedForGroup, groupRefs, bestCutsForThisBar, bestWaste,
                 shuffleIter, currentWaste, allLayouts, layoutIndexCounter, result>>
  /\ UNCHANGED randomCalls
  /\ linearInputsUnchanged

\* Lines 350-378: waste per layout, totals, consolidation, the returned object.
LinearReturn ==
  /\ call = "linear" /\ pc = "group" /\ ~partGroupsThrows(parts)
  /\ gi > Len(LinearGroupKeys(parts))
  /\ LET finalLayouts == [k \in 1..Len(allLayouts) |->
           [allLayouts[k] EXCEPT !.wasteLength =
              allLayouts[k].stockLength - allLayouts[k].usedLength]]
     IN /\ allLayouts' = finalLayouts
        /\ result' = [layouts |-> finalLayouts,
                      unplacedParts |-> ConsolidateLinear(allUnplacedParts),
                      totalStockUsed |-> Len(allLayouts),
                      totalWaste |-> SumSeq([k \in 1..Len(finalLayouts) |->
                                               finalLayouts[k].wasteLength])]
  /\ pc' = "done"
  /\ parts' = LinearConsolidationWrites(allUnplacedParts, unplacedRefs, 1, <<>>, parts)
  /\ UNCHANGED <<gi, allCutParts, unplacedForGroup, groupRefs, bestCutsForThisBar,
                 bestWaste, shuffleIter, currentWaste, allUnplacedParts, unplacedRefs,
                 layoutIndexCounter>>
  /\ UNCHANGED randomCalls
  /\ linearReturnUnchanged

LinearNext ==
  \/ LinearThrow
  \/ LinearStartGroup
  \/ Baseline
  \/ ShuffleTrial
  \/ CommitBar
  \/ LinearEndGroup
  \/ LinearReturn

LinearSpec == LinearInit /\ [][LinearNext]_vars

Init == SheetInit \/ LinearInit

Next == SheetNext \/ LinearNext

Spec == Init /\ [][Next]_vars

\* performSheetNesting is entered a second time with the argument objects
\* of the first call, as that call left them (lines 100-112): the parameters
\* are bound again and layouts, unplacedParts and totalSheetsUsed are fresh.
\* What the first call returned is kept for comparison.
SheetRerun ==
  /\ call = "sheet" /\ pc = "done" /\ run = 1
  /\ run' = 2
  /\ firstResult' = result
  /\ pc' = "group"
  /\ gi' = 1
  /\ result' = null
  /\ randomCalls' = 0
  /\ unplacedRefs' = <<>>
  /\ partsToPlace' = <<>> /\ di' = 1 /\ sheetsUsedForThisDef' = 0
  /\ layouts' = <<>> /\ unplacedParts' = <<>> /\ totalSheetsUsed' = <<>>
  /\ UNCHANGED <<call, parts, availableSheets, partToPartDist, partToSheetDist,
                 rotation, linearVars>>

\* performLinearNesting is entered a second time with the argument objects
\* of the first call, as that call left them (lines 232-243): the parameters
\* are bound again and allLayouts, allUnplacedParts and layoutIndexCounter
\* are fresh. What the first call returned is kept for comparison.
LinearRerun ==
  /\ call = "linear" /\ pc = "done" /\ run = 1
  /\ run' = 2
  /\ firstResult' = result
  /\ pc' = "group"
  /\ gi' = 1
  /\ result' = null
  /\ randomCalls' = 0
  /\ unplacedRefs' = <<>> /\ groupRefs' = <<>>
  /\ allCutParts' = <<>> /\ unplacedForGroup' = <<>>
  /\ bestCutsForThisBar' = <<>> /\ bestWaste' = 0 /\ shuffleIter' = 0
  /\ currentWaste' = 0
  /\ allLayouts' = <<>> /\ allUnplacedParts' = <<>> /\ layoutIndexCounter' = 1
  /\ UNCHANGED <<call, parts, stockLength, optimizationGoal, leftEndAllowance,
                 rightEndAllowance, sheetVars>>

TwiceNext == Next \/ SheetRerun \/ LinearRerun

TwiceSpec == Init /\ [][TwiceNext]_vars

\* ------------------------------------------------ the expansion of line 135
\* Quantities up to and beyond the factor 1000 of the synthetic id.
ExpandQuantities == {1, 2, 999, 1000, 1001}

\* The rows of one group: one or two rows, id the row's place, of one grade
\* and thickness.
ExpandInputs ==
  UNION { [1..n -> {<<1, 1>>, <<2, 2>>} \X ExpandQuantities] : n \in 1..2 }

MkGroup(rows) ==
  [i \in 1..Len(rows) |-> Part(i, rows[i][1][1], rows[i][1][2], 1, GradeA, rows[i][2])]

ExpandInit ==
  \E r \in ExpandInputs :
    /\ call = "expand"
    /\ pc = "rows"
    /\ parts = MkGroup(r)
    /\ availableSheets = <<>> /\ partToPartDist = 0 /\ partToSheetDist = 0
    /\ rotation = NONE
    /\ gi = 1
    /\ partsToPlace = <<>> /\ di = 1 /\ sheetsUsedForThisDef = 0
    /\ layouts = <<>> /\ unplacedParts = <<>> /\ totalSheetsUsed = <<>>
    /\ result = null
    /\ randomCalls = 0 /\ run = 1 /\ firstResult = null
    /\ unplacedRefs = <<>> /\ groupRefs = <<>>
    /\ stockLength = 0 /\ optimizationGoal = PRIORITIZE_SPEED
    /\ leftEndAllowance = 0 /\ rightEndAllowance = 0
    /\ allCutParts = <<>> /\ unplacedForGroup = <<>>
    /\ bestCutsForThisBar = <<>> /\ bestWaste = 0 /\ shuffleIter = 0
    /\ currentWaste = 0
    /\ allLayouts = <<>> /\ allUnplacedParts = <<>> /\ layoutIndexCounter = 1

\* Lines 134-136: flatMap of the callback over the rows of the group, and the
\* sort by area.
ExpandInstances ==
  /\ call = "expand" /\ pc = "rows"
  /\ partsToPlace' = ExpandGroup(parts)
  /\ pc' = "expanded"
  /\ UNCHANGED <<gi, di, sheetsUsedForThisDef, layouts, unplacedParts, unplacedRefs,
                 totalSheetsUsed, result>>
  /\ inputsUnchanged

ExpandNext == ExpandInstances

ExpandSpec == ExpandInit /\ [][ExpandNext]_vars

\* ------------------------------------------------------------------- claims
Range(s) == {s[k] : k \in 1..Len(s)}

AllPlaced(ls) == Flatten([k \in 1..Len(ls) |-> ls[k].placedParts])

AllCuts(ls) == Flatten([k \in 1..Len(ls) |-> ls[k].cuts])

QuantityOf(rows) == SumSeq([k \in 1..Len(rows) |-> rows[k].quantity])

SheetDone == call = "sheet" /\ pc = "done"

LinearDone == call = "linear" /\ pc = "done"

PlacedQuantity(oid) ==
  Len(SelectSeq(AllPlaced(result.layouts), LAMBDA p : p.originalId = oid))

UnplacedQuantity(oid) ==
  QuantityOf(SelectSeq(result.unplacedParts, LAMBDA p : p.originalId = oid))

RequestedQuantity(oid) ==
  QuantityOf(SelectSeq(parts, LAMBDA p : p.originalId = oid))

\* C1: when performSheetNesting has returned, for every originalId of the
\* input the placed parts of that originalId over all layouts plus the quantity
\* reported for it in unplacedParts equal the requested quantity of its rows.
C1_SheetConservation ==
  SheetDone =>
    \A oid \in {p.originalId : p \in Range(parts)} :
      PlacedQuantity(oid) + UnplacedQuantity(oid) = RequestedQuantity(oid)

\* The rows of a (grade, thickness) pair for which availableSheets holds no
\* sheet of equal grade and thickness.
HasMatchingSheet(p) ==
  \E s \in Range(availableSheets) : s.grade = p.grade /\ s.thickness = p.thickness

\* C2: when performSheetNesting has returned, a row whose (grade, thickness)
\* has no sheet of equal grade and thickness has no instance on any layout and
\* is in unplacedParts with its full requested quantity.
C2_UnmatchedGroupReported ==
  SheetDone =>
    \A p \in Range(parts) :
      ~HasMatchingSheet(p) =>
        /\ PlacedQuantity(p.originalId) = 0
        /\ \E u \in Range(result.unplacedParts) :
             u.originalId = p.originalId /\ u.quantity = p.quantity

LayoutsOfDef(ls, s) == Cardinality({k \in 1..Len(ls) : ls[k].sheet = s})

\* C6: at every point of performSheetNesting and in its result, the layouts
\* cut from one sheet definition are no more than the definition's quantity.
C6_CapacityRespected ==
  call = "sheet" =>
    \A s \in Range(availableSheets) : LayoutsOfDef(layouts, s) <= s.quantity
ExtentH(p) == IF p.rotated THEN p.length ELSE p.width

ExtentV(p) == IF p.rotated THEN p.width ELSE p.length

Separated(a, b, gap) ==
  \/ a.x + ExtentH(a) + gap <= b.x
  \/ b.x + ExtentH(b) + gap <= a.x
  \/ a.y + ExtentV(a) + gap <= b.y
  \/ b.y + ExtentV(b) + gap <= a.y

\* C4: any two distinct PlacedParts of one layout are separated by at least
\* partToPartDist on the x axis or on the y axis, with the extents taken by
\* each part's rotated flag.
C4_NoOverlap ==
  call = "sheet" =>
    \A l \in Range(layouts) :
      \A a, b \in 1..Len(l.placedParts) :
        a # b => Separated(l.placedParts[a], l.placedParts[b], partToPartDist)

\* A layout holds three parts of two shapes, with a clearance asked and
\* rotation allowed.
C4_Witness ==
  /\ call = "sheet" /\ partToPartDist > 0 /\ rotation = NINETY
  /\ \E l \in Range(layouts) :
       /\ Len(l.placedParts) >= 3
       /\ \E a, b \in Range(l.placedParts) : Area(a) # Area(b)

\* C5: every PlacedPart of every layout lies within the sheet less
\* partToSheetDist on each side, with the extents taken by its rotated flag.
C5_WithinBounds ==
  call = "sheet" =>
    \A l \in Range(layouts) :
      \A p \in Range(l.placedParts) :
        /\ p.x >= partToSheetDist
        /\ p.y >= partToSheetDist
        /\ p.x + ExtentH(p) <= l.sheet.length - partToSheetDist
        /\ p.y + ExtentV(p) <= l.sheet.width - partToSheetDist

\* A rotated part is placed on a sheet with an edge clearance.
C5_Witness ==
  /\ call = "sheet" /\ partToSheetDist > 0
  /\ \E l \in Range(layouts) :
       /\ Len(l.placedParts) >= 2
       /\ \E p \in Range(l.placedParts) : p.rotated /\ p.length # p.width

CutQuantity(id) == Len(SelectSeq(AllCuts(result.layouts), LAMBDA c : c.id = id))

UnplacedLinearQuantity(id) ==
  QuantityOf(SelectSeq(result.unplacedParts, LAMBDA p : p.id = id))

\* C3: when performLinearNesting has returned (part ids pairwise distinct), no
\* cut instance is on two bars or twice on one, and for every part the cuts of
\* its id over all layouts plus the quantity reported for it in unplacedParts
\* equal its requested quantity; in both modes, whatever the shuffles drew.
C3_LinearConservation ==
  LinearDone =>
    LET cuts == AllCuts(result.layouts) IN
    /\ \A a, b \in 1..Len(cuts) : a # b => cuts[a].instanceId # cuts[b].instanceId
    /\ \A p \in Range(parts) :
         CutQuantity(p.id) + UnplacedLinearQuantity(p.id) = p.quantity

\* A waste-minimizing run returned several bars, one of them holding two units
\* of one part, and an unplaced part.
C3_Witness ==
  /\ LinearDone /\ optimizationGoal = MINIMIZE_WASTE
  /\ Len(result.layouts) >= 2
  /\ result.unplacedParts # <<>>
  /\ \E l \in Range(result.layouts) :
       \E a, b \in 1..Len(l.cuts) : a # b /\ l.cuts[a].id = l.cuts[b].id

\* C7: usedLength of every StockLayout is the sum of its cuts' effectiveLength
\* and is at most stockLength - leftEndAllowance - rightEndAllowance.
C7_BarCapacity ==
  call = "linear" =>
    \A l \in Range(allLayouts) :
      /\ l.usedLength = SumSeq([k \in 1..Len(l.cuts) |-> l.cuts[k].effectiveLength])
      /\ l.usedLength <= stockLength - leftEndAllowance - rightEndAllowance

\* A bar chosen by a shuffle trial is full to the usable length, with both
\* allowances asked.
C7_Witness ==
  /\ call = "linear" /\ optimizationGoal = MINIMIZE_WASTE
  /\ leftEndAllowance > 0 /\ rightEndAllowance > 0
  /\ \E l \in Range(allLayouts) :
       /\ Len(l.cuts) >= 2
       /\ l.usedLength = stockLength - leftEndAllowance - rightEndAllowance

BaselineWaste ==
  usableStockLength -
    UsedLength(GreedyCuts(SortByLengthDesc(allCutParts), 1, usableStockLength, <<>>))

\* C8: in MINIMIZE_WASTE mode, the waste of a bar at the step that commits it
\* is at most the waste of the first-fit-decreasing bar of the pool it was
\* chosen from.
C8_NoWorseThanBaseline ==
  [][ (call = "linear" /\ optimizationGoal = MINIMIZE_WASTE
        /\ Len(allLayouts') = Len(allLayouts) + 1)
      => usableStockLength - allLayouts'[Len(allLayouts')].usedLength <= BaselineWaste ]_vars

\* The bar about to be committed has strictly less waste than the baseline.
C8_Witness ==
  /\ call = "linear" /\ pc = "commit" /\ optimizationGoal = MINIMIZE_WASTE
  /\ Len(bestCutsForThisBar) > 0
  /\ usableStockLength - UsedLength(bestCutsForThisBar) < BaselineWaste

TooLong(p) == p.effectiveLength > stockLength - leftEndAllowance - rightEndAllowance

\* C10: a LinearPart with effectiveLength above the usable length is never
\* expanded, has no cut on any layout and is in unplacedParts with its full
\* quantity; when every part is too long there is no layout and totalStockUsed
\* is 0 (stockLength 1000, no allowance, one part of length 1200: quantity 1
\* unplaced, no layout).
C10_TooLongRejected ==
  call = "linear" =>
    /\ \A c \in Range(allCutParts) : \A p \in Range(parts) : TooLong(p) => c.id # p.id
    /\ pc = "done" =>
         /\ \A p \in Range(parts) :
              TooLong(p) =>
                /\ CutQuantity(p.id) = 0
                /\ \E u \in Range(result.unplacedParts) :
                     u.id = p.id /\ u.quantity = p.quantity
         /\ (\A p \in Range(parts) : TooLong(p)) =>
              result.layouts = <<>> /\ result.totalStockUsed = 0
         /\ (stockLength = 1000 /\ Len(parts) = 1) =>
              /\ result.layouts = <<>>
              /\ Len(result.unplacedParts) = 1
              /\ result.unplacedParts[1].length = 1200
              /\ result.unplacedParts[1].quantity = 1

\* A run returned bars and a too long part of quantity two.
C10_Witness ==
  /\ LinearDone /\ result.layouts # <<>>
  /\ \E p \in Range(parts) :
       /\ TooLong(p) /\ p.quantity >= 2
       /\ \E u \in Range(result.unplacedParts) : u.id = p.id

\* C11: for every committed SheetLayout, usedArea is the sum of length * width
\* over its placedParts and usedArea + wasteArea = sheet.length * sheet.width;
\* wastePercentage is wasteArea / sheetArea * 100, and 0 when the sheet area
\* is 0.
C11_AreaConservation ==
  /\ call = "sheet" =>
       \A l \in Range(layouts) :
         LET sheetArea == l.sheet.length * l.sheet.width IN
         /\ l.usedArea = SumSeq([k \in 1..Len(l.placedParts) |->
                                  l.placedParts[k].length * l.placedParts[k].width])
         /\ l.usedArea + l.wasteArea = sheetArea
         /\ sheetArea > 0 => l.wastePercentage.num * sheetArea
                                = l.wasteArea * 100 * l.wastePercentage.den
         /\ sheetArea = 0 => l.wastePercentage.num = 0
  /\ \A wasteArea \in 0..1 : WastePercentage(wasteArea, 0).num = 0

\* A committed layout holds a rotated part and a part of another shape, with
\* waste left on the sheet.
C11_Witness ==
  /\ call = "sheet"
  /\ \E l \in Range(layouts) :
       /\ l.wasteArea > 0 /\ l.usedArea > 0
       /\ \E a, b \in Range(l.placedParts) :
            a.rotated /\ a.length # a.width /\ Area(a) # Area(b)

\* The part fits an empty sheet in the orientation of the given extents.
FitsEmpty(horizontal, vertical, s) ==
  /\ partToSheetDist + horizontal <= s.length - partToSheetDist
  /\ partToSheetDist + vertical <= s.width - partToSheetDist

\* The row is too large for every supplied sheet in every allowed orientation.
TooLarge(p) ==
  \A s \in Range(availableSheets) :
    /\ ~FitsEmpty(p.width, p.length, s)
    /\ rotation # NONE => ~FitsEmpty(p.length, p.width, s)

\* Every object the next statement of performSheetNesting reads is there: the
\* group of the loop and, inside the while loop, the sheet definition.
SheetStepDefined ==
  /\ pc \in {"group", "def", "sheet", "done"}
  /\ pc \in {"def", "sheet"} => gi \in 1..Len(GroupKeys(parts))
  /\ pc = "sheet" => di \in 1..Len(CurDefs)

\* The same for performLinearNesting: the group, and for every remaining cut
\* the part that find() of line 322 looks up by id.
LinearStepDefined ==
  /\ pc \in {"group", "bar", "shuffle", "commit", "done"}
  /\ pc \in {"bar", "shuffle", "commit"} =>
       /\ gi \in 1..Len(LinearGroupKeys(parts))
       /\ \A c \in Range(allCutParts) :
            \E p \in Range(partsInGroup(parts, CurMaterial)) : p.id = c.id
  /\ pc = "shuffle" => shuffleIter < SHUFFLE_ITERATIONS

\* C12: for well-formed input both packers run to their return with no step
\* failing, and return a result; a row too large for every supplied sheet in
\* every allowed orientation has no instance placed, every row not placed in
\* full is in unplacedParts, and the instances of a group with sheet
\* definitions that are left over when the supply is exhausted are in
\* unplacedParts with their count. In the linear result every row not cut in
\* full is in unplacedParts.
C12_NoFailure ==
  /\ call = "sheet" => SheetStepDefined
  /\ call = "linear" => LinearStepDefined
  /\ pc = "done" => result # null
  /\ SheetDone =>
       \A p \in Range(parts) :
         /\ TooLarge(p) => PlacedQuantity(p.originalId) = 0
         /\ PlacedQuantity(p.originalId) < p.quantity =>
              \E u \in Range(result.unplacedParts) : u.originalId = p.originalId
         /\ Len(sheetDefsForGroup(availableSheets, GroupKey(p))) # 0 =>
              UnplacedQuantity(p.originalId) = p.quantity - PlacedQuantity(p.originalId)
  /\ LinearDone =>
       \A p \in Range(parts) :
         CutQuantity(p.id) < p.quantity =>
           \E u \in Range(result.unplacedParts) : u.id = p.id

IsScenarioA ==
  /\ call = "sheet" /\ Len(availableSheets) = 1 /\ Len(parts) = 1
  /\ availableSheets[1].length = 1000 /\ availableSheets[1].width = 500
  /\ availableSheets[1].quantity >= 1
  /\ parts[1].length = 400 /\ parts[1].width = 300 /\ parts[1].quantity = 1
  /\ parts[1].grade = availableSheets[1].grade
  /\ parts[1].thickness = availableSheets[1].thickness
  /\ partToPartDist = 0 /\ partToSheetDist = 0 /\ rotation = NONE

\* C13: with one sheet of length 1000 and width 500, one part of length 400
\* and width 300 and quantity 1 of the sheet's grade and thickness, no
\* clearance and rotation NONE, performSheetNesting returns one layout holding
\* one placed part at (0, 0), not rotated, wasteArea 380000 and no unplaced
\* part.
C13_ScenarioA ==
  (IsScenarioA /\ pc = "done") =>
    /\ Len(result.layouts) = 1
    /\ Len(result.layouts[1].placedParts) = 1
    /\ result.layouts[1].placedParts[1].x = 0
    /\ result.layouts[1].placedParts[1].y = 0
    /\ result.layouts[1].placedParts[1].rotated = FALSE
    /\ result.layouts[1].wasteArea = 380000
    /\ result.unplacedParts = <<>>

\* The call of scenario A, on a sheet definition of quantity 2, has returned.
C13_Witness ==
  /\ IsScenarioA /\ pc = "done" /\ availableSheets[1].quantity = 2
  /\ result.layouts # <<>>

\* One part of length 450 and width 100, quantity 1, on one sheet of the given
\* length and width, no clearance, rotation allowed.
IsScenarioB(length, width) ==
  /\ call = "sheet" /\ Len(availableSheets) = 1 /\ Len(parts) = 1
  /\ availableSheets[1].length = length /\ availableSheets[1].width = width
  /\ parts[1].length = 450 /\ parts[1].width = 100 /\ parts[1].quantity = 1
  /\ partToPartDist = 0 /\ partToSheetDist = 0 /\ rotation # NONE

\* C14 as stated: with one sheet of length 300 and width 500, one part of
\* length 450 and width 100, no clearance and rotation allowed, the part is
\* placed with rotated = true.
C14_ScenarioB ==
  (IsScenarioB(300, 500) /\ pc = "done") =>
    /\ Len(AllPlaced(result.layouts)) = 1
    /\ AllPlaced(result.layouts)[1].rotated = TRUE

\* C14 amended: on the sheet of length 300 and width 500 the unrotated part
\* (horizontal extent 100, vertical extent 450) fits and is placed at (0, 0)
\* with rotated = false; on a sheet of length 500 and width 300 only the
\* rotated orientation (horizontal extent 450, vertical extent 100) fits and
\* the part is placed at (0, 0) with rotated = true. Nothing is unplaced.
C14_ScenarioBAmended ==
  /\ (IsScenarioB(300, 500) /\ pc = "done") =>
       /\ Len(AllPlaced(result.layouts)) = 1
       /\ AllPlaced(result.layouts)[1].rotated = FALSE
       /\ AllPlaced(result.layouts)[1].x = 0 /\ AllPlaced(result.layouts)[1].y = 0
       /\ result.unplacedParts = <<>>
  /\ (IsScenarioB(500, 300) /\ pc = "done") =>
       /\ Len(AllPlaced(result.layouts)) = 1
       /\ AllPlaced(result.layouts)[1].rotated = TRUE
       /\ AllPlaced(result.layouts)[1].x = 0 /\ AllPlaced(result.layouts)[1].y = 0
       /\ result.unplacedParts = <<>>
       /\ ~FitsEmpty(parts[1].width, parts[1].length, availableSheets[1])

\* The call on the sheet of length 500 and width 300 returned a rotated part.
C14_Witness ==
  /\ IsScenarioB(500, 300) /\ pc = "done"
  /\ \E p \in Range(AllPlaced(result.layouts)) : p.rotated

IsScenarioC ==
  /\ call = "linear" /\ stockLength = 6000
  /\ leftEndAllowance = 0 /\ rightEndAllowance = 0
  /\ Len(parts) = 2
  /\ parts[1].length = 2000 /\ parts[1].quantity = 2
  /\ parts[2].length = 1000 /\ parts[2].quantity = 1
  /\ parts[1].rawMaterial = parts[2].rawMaterial
  /\ \A p \in Range(parts) : p.effectiveLength = p.length

\* C15: with stockLength 6000, no end allowance and parts of one raw material
\* of length 2000 (quantity 2) and 1000 (quantity 1), effectiveLength equal to
\* length, performLinearNesting returns one layout with cuts of lengths 2000,
\* 2000, 1000 in that order, usedLength 5000, wasteLength 1000, totalStockUsed
\* 1 and no unplaced part, in both modes and for every shuffle outcome.
C15_ScenarioC ==
  (IsScenarioC /\ pc = "done") =>
    /\ Len(result.layouts) = 1
    /\ [k \in 1..Len(result.layouts[1].cuts) |-> result.layouts[1].cuts[k].length]
         = <<2000, 2000, 1000>>
    /\ result.layouts[1].usedLength = 5000
    /\ result.layouts[1].wasteLength = 1000
    /\ result.totalStockUsed = 1
    /\ result.unplacedParts = <<>>

\* The waste-minimizing call of scenario C has returned after its shuffle
\* trials.
C15_Witness ==
  /\ IsScenarioC /\ pc = "done" /\ optimizationGoal = MINIMIZE_WASTE
  /\ randomCalls = SHUFFLE_ITERATIONS * 2
  /\ result.layouts # <<>>

\* C16: no step of performSheetNesting or performLinearNesting, the return
\* with its consolidation included, changes the caller's parts array, a part
\* object (its quantity and id among its fields), the availableSheets array
\* or a sheet definition, nor the other arguments.
C16_InputsUnchanged ==
  [][ /\ parts' = parts
      /\ availableSheets' = availableSheets
      /\ <<partToPartDist, partToSheetDist, rotation>>' =
           <<partToPartDist, partToSheetDist, rotation>>
      /\ <<stockLength, optimizationGoal, leftEndAllowance, rightEndAllowance>>' =
           <<stockLength, optimizationGoal, leftEndAllowance, rightEndAllowance>> ]_vars

\* performSheetNesting has returned: two of the caller's rows, one of
\* quantity 2, were themselves in unplacedParts when it was consolidated, and
\* are reported.
C16_Witness ==
  /\ SheetDone
  /\ Len(result.unplacedParts) = 2
  /\ \A k \in 1..Len(unplacedRefs) : unplacedRefs[k] # 0
  /\ \E k \in 1..Len(unplacedRefs) : parts[unplacedRefs[k]].quantity = 2

\* The candidate points of the claim: the corner and, for each placed part,
\* the point right of it and the point above it.
ReferencePoints(placed) ==
  {[x |-> partToSheetDist, y |-> partToSheetDist]}
  \cup {[x |-> q.x + ExtentH(q) + partToPartDist, y |-> q.y] : q \in Range(placed)}
  \cup {[x |-> q.x, y |-> q.y + ExtentV(q) + partToPartDist] : q \in Range(placed)}

ReferenceOrientations == IF rotation # NONE THEN {FALSE, TRUE} ELSE {FALSE}

\* The part p put at a point in an orientation.
PutAt(p, point, rotated) ==
  [x |-> point.x, y |-> point.y, rotated |-> rotated,
   length |-> p.length, width |-> p.width]

\* Within the sheet less the edge clearance, and clear of every placed part.
ReferenceFeasible(c, sheet, placed) ==
  /\ c.x >= partToSheetDist /\ c.y >= partToSheetDist
  /\ c.x + ExtentH(c) <= sheet.length - partToSheetDist
  /\ c.y + ExtentV(c) <= sheet.width - partToSheetDist
  /\ \A q \in Range(placed) : Separated(c, q, partToPartDist)

FeasiblePlacements(p, sheet, placed) ==
  {c \in {PutAt(p, point, rotated) :
            point \in ReferencePoints(placed), rotated \in ReferenceOrientations} :
     ReferenceFeasible(c, sheet, placed)}

\* The while loop is about to open a sheet of the current definition.
OpeningSheet ==
  /\ call = "sheet" /\ pc = "sheet"
  /\ Len(partsToPlace) > 0 /\ sheetsUsedForThisDef < CurDefs[di].quantity

\* The while loop has just pushed a layout: the last one of layouts.
SheetFilled == call = "sheet" /\ pc = "sheet" /\ sheetsUsedForThisDef > 0

LastLayout == layouts[Len(layouts)]

\* The arrays findBestPosition is called with while a layout is filled: the
\* parts placed before each part of the layout, and the layout's final parts.
PlacedPrefixes(l) == {SubSeq(l.placedParts, 1, k) : k \in 0..Len(l.placedParts)}

\* findBestPosition returns null exactly when nothing is feasible, and a
\* lowest, then leftmost, feasible placement otherwise.
BottomLeftAt(p, sheet, placed) ==
  LET r == findBestPosition(p, sheet, placed, partToPartDist, partToSheetDist, rotation)
      feasible == FeasiblePlacements(p, sheet, placed)
  IN /\ r = null <=> feasible = {}
     /\ r # null =>
          /\ PutAt(p, r, r.rotated) \in feasible
          /\ \A c \in feasible : r.y < c.y \/ (r.y = c.y /\ r.x <= c.x)

\* C17: for every sheet that is opened, empty, and every array of placed
\* parts a layout goes through while it is filled, and every part of the
\* input, findBestPosition returns null if and only if no candidate point is
\* feasible in an allowed orientation; otherwise it returns a feasible point
\* and orientation with the smallest y and, among those, the smallest x.
C17_BottomLeft ==
  /\ OpeningSheet => \A p \in Range(parts) : BottomLeftAt(p, CurDefs[di], <<>>)
  /\ SheetFilled =>
       \A placed \in PlacedPrefixes(LastLayout) : \A p \in Range(parts) :
         BottomLeftAt(p, LastLayout.sheet, placed)

\* The layout just pushed holds three parts or more; on them a part of the
\* input has a feasible point that is not the lowest one, and another part of
\* the input has none.
C17_Witness ==
  /\ SheetFilled
  /\ Len(LastLayout.placedParts) >= 3
  /\ \E p \in Range(parts) :
       \E c, d \in FeasiblePlacements(p, LastLayout.sheet, LastLayout.placedParts) :
         c.y < d.y
  /\ \E p \in Range(parts) :
       FeasiblePlacements(p, LastLayout.sheet, LastLayout.placedParts) = {}

\* Strictly lower, or as low and strictly further left.
Beats(c, d) == c.y < d.y \/ (c.y = d.y /\ c.x < d.x)

\* The best unrotated and the best rotated feasible placement share a point.
OrientationsTie(feasible) ==
  \E u, v \in feasible :
    /\ ~u.rotated /\ v.rotated /\ u.x = v.x /\ u.y = v.y
    /\ \A c \in feasible : ~Beats(c, u)

\* A rotated result strictly beats every feasible unrotated placement, and
\* is not the outcome of a tie; with rotation NONE no result is rotated.
UnrotatedOnTieAt(p, sheet, placed) ==
  LET r == findBestPosition(p, sheet, placed, partToPartDist, partToSheetDist, rotation)
      feasible == FeasiblePlacements(p, sheet, placed)
  IN r # null =>
       /\ rotation = NONE => r.rotated = FALSE
       /\ r.rotated =>
            /\ rotation # NONE
            /\ \A c \in feasible : ~c.rotated => Beats(r, c)
            /\ \A c \in feasible : c.rotated => ~Beats(c, r)
            /\ ~OrientationsTie(feasible)

\* C18: on the same calls, findBestPosition returns rotated = true only
\* when rotation is not NONE and the returned rotated placement is strictly
\* lower, or as low and strictly further left, than every feasible unrotated
\* one; when the best unrotated and the best rotated placement are at the
\* same point the result has rotated = false; with rotation NONE the result
\* never has rotated = true.
C18_UnrotatedOnTie ==
  /\ OpeningSheet => \A p \in Range(parts) : UnrotatedOnTieAt(p, CurDefs[di], <<>>)
  /\ SheetFilled =>
       \A placed \in PlacedPrefixes(LastLayout) : \A p \in Range(parts) :
         UnrotatedOnTieAt(p, LastLayout.sheet, placed)

\* The layout just pushed holds a rotated part of unequal sides that had a
\* feasible unrotated placement too, and on an array of placed parts of that
\* layout the two orientations of a part of unequal sides tie.
C18_Witness ==
  /\ SheetFilled
  /\ \E k \in 1..Len(LastLayout.placedParts) :
       LET q == LastLayout.placedParts[k] IN
       /\ q.rotated /\ q.length # q.width
       /\ \E c \in FeasiblePlacements(q, LastLayout.sheet,
                                      SubSeq(LastLayout.placedParts, 1, k - 1)) :
            ~c.rotated
  /\ \E placed \in PlacedPrefixes(LastLayout) : \E p \in Range(parts) :
       /\ p.length # p.width
       /\ OrientationsTie(FeasiblePlacements(p, LastLayout.sheet, placed))

\* C19: every PlacedPart of every layout has the grade and the thickness of
\* the layout's sheet, for every grade string, those holding a '-' included.
C19_MatchingCapacity ==
  call = "sheet" =>
    \A l \in Range(layouts) :
      \A p \in Range(l.placedParts) :
        p.grade = l.sheet.grade /\ p.thickness = l.sheet.thickness

\* The while loop is about to open a sheet on which no remaining instance
\* can be placed.
OpensEmptyLayout ==
  /\ call = "sheet" /\ pc = "sheet"
  /\ Len(partsToPlace) > 0 /\ sheetsUsedForThisDef < CurDefs[di].quantity
  /\ PlaceLoop(partsToPlace, 1, CurDefs[di], Cfg, <<>>, <<>>).placedParts = <<>>

\* C20: a layout on which no instance could be placed is not appended to
\* layouts, leaves totalSheetsUsed and the count of sheets used of its
\* definition as they are, and moves the group on to the next definition;
\* within a group the definitions are never gone back to, and a layout that is
\* appended is cut from the current definition; every layout holds at least
\* one PlacedPart.
C20_AbandonEmptyLayout ==
  /\ [](call = "sheet" => \A l \in Range(layouts) : Len(l.placedParts) >= 1)
  /\ [][ /\ OpensEmptyLayout =>
             /\ layouts' = layouts
             /\ totalSheetsUsed' = totalSheetsUsed
             /\ sheetsUsedForThisDef' = sheetsUsedForThisDef
             /\ partsToPlace' = partsToPlace
             /\ gi' = gi /\ di' = di + 1 /\ pc' = "def"
         /\ (call = "sheet" /\ pc \in {"def", "sheet"} /\ pc' \in {"def", "sheet"}) =>
             gi' = gi /\ di' >= di
         /\ (call = "sheet" /\ layouts' # layouts) =>
             /\ pc = "sheet" /\ di' = di
             /\ layouts' = Append(layouts, layouts'[Len(layouts')])
             /\ layouts'[Len(layouts')].sheet = CurDefs[di] ]_vars

\* A sheet of a definition with supply left was abandoned, and the group goes
\* on to a later definition with its pool as it was.
C20_Witness ==
  /\ call = "sheet" /\ pc = "def"
  /\ di > 1 /\ di <= Len(CurDefs)
  /\ Len(partsToPlace) > 0
  /\ sheetsUsedForThisDef < CurDefs[di - 1].quantity

\* The group a layout was filled for: the key of the parts placed on it.
LayoutKey(l) == GroupKey(l.placedParts[1])

\* The layouts the current group has cut from its d-th definition.
SheetsUsedByGroup(d) ==
  Cardinality({k \in 1..Len(layouts) :
                 LayoutKey(layouts[k]) = CurKey /\ layouts[k].sheet = CurDefs[d]})

\* A fresh sheet of the group's d-th definition takes none of the pool.
AcceptsNothing(d) ==
  PlaceLoop(partsToPlace, 1, CurDefs[d], Cfg, <<>>, <<>>).placedParts = <<>>

\* C21: among the layouts of one group, none of a later definition of
\* availableSheets precedes one of an earlier definition; and while a group
\* is at its di-th definition, every earlier definition of the group has its
\* supply used up by the group or takes no remaining instance on a fresh
\* sheet.
C21_DefinitionOrder ==
  call = "sheet" =>
    /\ \A i, j \in 1..Len(layouts) :
         (i < j /\ LayoutKey(layouts[i]) = LayoutKey(layouts[j])) =>
           layouts[i].sheet.id <= layouts[j].sheet.id
    /\ pc \in {"def", "sheet"} =>
         \A d \in 1..(di - 1) :
           SheetsUsedByGroup(d) = CurDefs[d].quantity \/ AcceptsNothing(d)

\* A group has cut a sheet of its first definition, left supply of it unused
\* because the next sheet of it took nothing, and cut a sheet of its second
\* definition.
C21_Witness ==
  /\ call = "sheet" /\ pc = "sheet" /\ di = 2
  /\ SheetsUsedByGroup(1) >= 1
  /\ SheetsUsedByGroup(1) < CurDefs[1].quantity
  /\ SheetsUsedByGroup(2) >= 1

\* C22: the best bar found is never empty, so the branch of line 319 is not
\* taken; when performLinearNesting has returned, every part with
\* 0 <= effectiveLength <= usableStockLength has all its quantity on the
\* layouts and unplacedParts holds exactly the parts with effectiveLength
\* above usableStockLength, in both modes and for every shuffle.
C22_EmptyBarNeverBest ==
  call = "linear" =>
    /\ pc = "commit" => Len(bestCutsForThisBar) > 0
    /\ pc = "done" =>
         /\ \A p \in Range(parts) :
              (0 <= p.effectiveLength /\ p.effectiveLength <= usableStockLength) =>
                CutQuantity(p.id) = p.quantity
         /\ {u.id : u \in Range(result.unplacedParts)} =
              {p.id : p \in {q \in Range(parts) : q.effectiveLength > usableStockLength}}

\* A waste-minimizing run has returned a part that is too long and two bars
\* or more, one of them chosen by a shuffle trial (a later bar of the raw
\* material holds a longer cut than any of its own).
C22_Witness ==
  /\ LinearDone /\ optimizationGoal = MINIMIZE_WASTE
  /\ \E i, j \in 1..Len(result.layouts) :
       /\ i < j
       /\ result.layouts[i].rawMaterial = result.layouts[j].rawMaterial
       /\ \A c \in Range(result.layouts[i].cuts) :
            c.effectiveLength < result.layouts[j].cuts[1].effectiveLength
  /\ result.unplacedParts # <<>>

\* The first-fit-decreasing bar of the pool.
BaselineCuts == GreedyCuts(SortByLengthDesc(allCutParts), 1, usableStockLength, <<>>)

\* The bars a trial can come to.
TrialBars ==
  {GreedyCuts(t, 1, usableStockLength, <<>>) : t \in ShuffleOutcomes(allCutParts)}

\* C23: while a bar is chosen the incumbent is the baseline bar unless a
\* trial had strictly lower waste; each trial replaces the incumbent exactly
\* when its waste is strictly lower, so that the incumbent has the least
\* waste of the baseline and the trials run and a later trial of equal waste
\* does not replace it; in MINIMIZE_WASTE mode with more than one instance
\* left 50 trials are run, otherwise none and the bar is the baseline; the
\* bar committed is the incumbent.
C23_EarliestMinimumWins ==
  /\ [](call = "linear" =>
         /\ pc \in {"shuffle", "commit"} =>
              /\ bestWaste = usableStockLength - UsedLength(bestCutsForThisBar)
              /\ bestWaste <= BaselineWaste
              /\ bestWaste = BaselineWaste => bestCutsForThisBar = BaselineCuts
              /\ shuffleIter > 0 => bestWaste <= currentWaste
         /\ pc = "shuffle" =>
              optimizationGoal = MINIMIZE_WASTE /\ Len(allCutParts) > 1
         /\ pc = "commit" =>
              IF optimizationGoal = MINIMIZE_WASTE /\ Len(allCutParts) > 1
              THEN shuffleIter = SHUFFLE_ITERATIONS
              ELSE shuffleIter = 0 /\ bestCutsForThisBar = BaselineCuts
         /\ optimizationGoal = PRIORITIZE_SPEED => randomCalls = 0)
  /\ [][ /\ (call = "linear" /\ pc = "shuffle") =>
              /\ shuffleIter' = shuffleIter + 1
              /\ IF currentWaste' < bestWaste
                 THEN /\ bestWaste' = currentWaste'
                      /\ bestCutsForThisBar' \in TrialBars
                      /\ usableStockLength - UsedLength(bestCutsForThisBar') = currentWaste'
                 ELSE /\ bestWaste' = bestWaste
                      /\ bestCutsForThisBar' = bestCutsForThisBar
         /\ (call = "linear" /\ Len(allLayouts') = Len(allLayouts) + 1) =>
              allLayouts'[Len(allLayouts')].cuts = bestCutsForThisBar ]_vars

\* After the 50 trials the incumbent beats the baseline, the last trial had
\* the waste of the incumbent, and a trial can come to another bar of that
\* waste.
C23_Witness ==
  /\ call = "linear" /\ pc = "commit" /\ shuffleIter = SHUFFLE_ITERATIONS
  /\ bestWaste < BaselineWaste
  /\ currentWaste = bestWaste
  /\ \E c \in TrialBars :
       /\ c # bestCutsForThisBar
       /\ usableStockLength - UsedLength(c) = bestWaste

\* C24: every cut of every StockLayout has the layout's rawMaterial, and the
\* pool a bar is chosen from, the incumbent bar included, holds only cuts of
\* the raw material of the group at work.
C24_OneMaterialPerBar ==
  call = "linear" =>
    /\ \A l \in Range(allLayouts) : \A c \in Range(l.cuts) : c.rawMaterial = l.rawMaterial
    /\ pc \in {"bar", "shuffle", "commit"} =>
         /\ \A c \in Range(allCutParts) : c.rawMaterial = CurMaterial
         /\ pc # "bar" => \A c \in Range(bestCutsForThisBar) : c.rawMaterial = CurMaterial
    /\ pc = "done" =>
         \A l \in Range(result.layouts) : \A c \in Range(l.cuts) :
           c.rawMaterial = l.rawMaterial

\* A waste-minimizing run returned bars of two raw materials, and a cut of
\* one of them would have fitted on the bar of the other.
C24_Witness ==
  /\ LinearDone /\ optimizationGoal = MINIMIZE_WASTE
  /\ \E l, m \in Range(result.layouts) :
       /\ l.rawMaterial # m.rawMaterial
       /\ \E c \in Range(m.cuts) :
            l.usedLength + c.effectiveLength <= usableStockLength

\* C25: the unit instances a group of rows of pairwise distinct ids is
\* expanded into have pairwise distinct ids and quantity 1 each, whatever the
\* rows' quantities, and no two PlacedParts of the layouts share an id.
C25_DistinctInstances ==
  LET instances == partsToPlace \o AllPlaced(layouts)
  IN /\ Cardinality({instances[k].id : k \in 1..Len(instances)}) = Len(instances)
     /\ \A k \in 1..Len(instances) : instances[k].quantity = 1

\* How far a call at position p of group g is from its return, outermost
\* loop first: the groups left, then inside a group the definitions left and
\* the instances in the pool (the cuts in the pool and the trials left), then
\* the place in the loop body. Every entry is a natural number. The groups
\* and the definitions are those of the arguments, which no step before the
\* return touches.
SheetRankAt(p, g, d, pool) ==
  IF p = "done" THEN <<0, 0, 0, 0, 0, 0>>
  ELSE IF p = "group" THEN <<1, Len(GroupKeys(parts)) + 1 - g, 1, 0, 0, 0>>
  ELSE <<1, Len(GroupKeys(parts)) + 1 - g, 0,
         Len(sheetDefsForGroup(availableSheets, GroupKeys(parts)[g])) + 1 - d,
         IF p = "def" THEN 1 ELSE 0, pool>>

\* The groups the loop of line 255 has to visit: none when the grouping raised.
LinearGroupCount == IF partGroupsThrows(parts) THEN 0 ELSE Len(LinearGroupKeys(parts))

LinearRankAt(p, g, pool, iter) ==
  IF p \in {"done", "threw"} THEN <<0, 0, 0, 0, 0, 0>>
  ELSE IF p = "group" THEN <<1, LinearGroupCount + 1 - g, 1, 0, 0, 0>>
  ELSE <<1, LinearGroupCount + 1 - g, 0, pool,
         IF p = "bar" THEN 2 ELSE IF p = "shuffle" THEN 1 ELSE 0,
         IF p = "shuffle" THEN SHUFFLE_ITERATIONS - iter ELSE 0>>

Rank ==
  IF call = "sheet" THEN SheetRankAt(pc, gi, di, Len(partsToPlace))
  ELSE LinearRankAt(pc, gi, Len(allCutParts), shuffleIter)

\* The rank of the state a step leads to.
NextRank ==
  IF call = "sheet" THEN SheetRankAt(pc', gi', di', Len(partsToPlace'))
  ELSE LinearRankAt(pc', gi', Len(allCutParts'), shuffleIter')

\* Lexicographic order on tuples of one length.
LexLess(a, b) ==
  \E k \in 1..Len(a) : a[k] < b[k] /\ \A m \in 1..(k - 1) : a[m] = b[m]

\* Lines 129-135: the unit instances performSheetNesting expands, those of
\* the rows whose group has a sheet definition.
ExpandedSheetInstances ==
  QuantityOf(SelectSeq(parts, LAMBDA p :
    Len(sheetDefsForGroup(availableSheets, GroupKey(p))) # 0))

\* Lines 261-275: the unit instances performLinearNesting expands, those of
\* the rows that are not too long for the usable length.
ExpandedCutInstances == QuantityOf(SelectSeq(parts, LAMBDA p : ~TooLong(p)))

\* C26: both functions terminate: at every position before the call ends (by
\* its return, or by raising) a next step is defined, and every step brings
\* the call strictly closer to its return in a well-founded order, whatever
\* the quantity of a sheet definition; every pass of the layout-opening loop
\* takes an instance out of partsToPlace or leaves the loop, and every commit
\* of the bar-filling loop takes a cut out of allCutParts or leaves the loop;
\* there are never more layouts than expanded instances.
C26_Terminates ==
  /\ [](/\ call = "sheet" => SheetStepDefined /\ Len(layouts) <= ExpandedSheetInstances
        /\ call = "linear" => /\ pc = "threw" \/ LinearStepDefined
                              /\ Len(allLayouts) <= ExpandedCutInstances
        /\ \A r \in {Rank} : \A k \in 1..Len(r) : r[k] >= 0)
  /\ [][ /\ \E a \in {NextRank}, b \in {Rank} : LexLess(a, b)
         /\ (call = "sheet" /\ pc = "sheet") =>
              Len(partsToPlace') < Len(partsToPlace) \/ pc' = "def"
         /\ (call = "linear" /\ pc = "commit") =>
              Len(allCutParts') < Len(allCutParts) \/ pc' = "group" ]_vars

\* A definition of unlimited quantity was left with instances in the pool
\* after sheets of it were cut.
C26_Witness ==
  /\ call = "sheet" /\ pc = "def" /\ di = 2
  /\ CurDefs[1].quantity = MAX_SAFE_INTEGER
  /\ Len(partsToPlace) > 0
  /\ SheetsUsedByGroup(1) >= 2

\* C27: with clearances of 0 or more, every layout has usedArea at most the
\* area of its sheet, wasteArea at least 0 and wastePercentage from 0 to 100,
\* and the result has totalUsedArea at most totalSheetArea.
C27_NotOverfilled ==
  (call = "sheet" /\ partToPartDist >= 0 /\ partToSheetDist >= 0) =>
    /\ \A l \in Range(layouts) :
         /\ l.usedArea <= l.sheet.length * l.sheet.width
         /\ l.wasteArea >= 0
         /\ l.wastePercentage.den > 0
         /\ 0 <= l.wastePercentage.num
         /\ l.wastePercentage.num <= 100 * l.wastePercentage.den
    /\ pc = "done" => result.totalUsedArea <= result.totalSheetArea

\* The result holds a sheet filled to the last unit of area by several
\* parts, and a sheet with waste.
C27_Witness ==
  /\ SheetDone
  /\ \E l \in Range(result.layouts) :
       Len(l.placedParts) >= 2 /\ l.usedArea = l.sheet.length * l.sheet.width
  /\ \E l \in Range(result.layouts) : l.wasteArea > 0
  /\ result.totalUsedArea < result.totalSheetArea

\* The cuts of the pool that are not on the bar about to be committed.
LeftInPool ==
  LET placedInstanceIds ==
        {bestCutsForThisBar[k].instanceId : k \in 1..Len(bestCutsForThisBar)}
  IN {c \in Range(allCutParts) : c.instanceId \notin placedInstanceIds}

\* C28: when a bar is committed, every cut left in the pool is longer than
\* the bar's usable length less its used length; and so is every cut of the
\* pool once the bar's cuts are removed, in both modes and for every shuffle.
C28_BarMaximal ==
  call = "linear" =>
    /\ pc = "commit" =>
         \A c \in LeftInPool :
           c.effectiveLength > usableStockLength - UsedLength(bestCutsForThisBar)
    /\ (pc = "bar" /\ allLayouts # <<>>
          /\ allLayouts[Len(allLayouts)].rawMaterial = CurMaterial) =>
         \A c \in Range(allCutParts) :
           c.effectiveLength > usableStockLength - allLayouts[Len(allLayouts)].usedLength

\* After the 50 trials the bar about to be committed has waste, and cuts are
\* left in the pool, one of them shorter than a cut of the bar.
C28_Witness ==
  /\ call = "linear" /\ pc = "commit" /\ shuffleIter = SHUFFLE_ITERATIONS
  /\ UsedLength(bestCutsForThisBar) < usableStockLength
  /\ \E c \in LeftInPool : \E b \in Range(bestCutsForThisBar) :
       c.effectiveLength < b.effectiveLength

\* C29 as stated: when a layout has been committed, findBestPosition
\* returns null on the layout's final placedParts for every instance the
\* pass over the pool deferred to remainingParts.
C29_LayoutSaturated ==
  SheetFilled =>
    \A p \in Range(partsToPlace) :
      findBestPosition(p, LastLayout.sheet, LastLayout.placedParts,
                       partToPartDist, partToSheetDist, rotation) = null

\* C29, amended: when a layout has been committed, for every instance the
\* pass deferred findBestPosition returns null on an array of placed parts
\* the layout went through, the one the instance was tried on; on the final
\* placedParts it can return a position, at a point made by a part placed
\* later.
C29_DeferredWhenTried ==
  SheetFilled =>
    \A p \in Range(partsToPlace) :
      \E placed \in PlacedPrefixes(LastLayout) :
        findBestPosition(p, LastLayout.sheet, placed,
                         partToPartDist, partToSheetDist, rotation) = null

\* A layout has been committed and a deferred instance has a position on
\* its final placedParts.
C29_Witness ==
  /\ SheetFilled
  /\ \E p \in Range(partsToPlace) :
       findBestPosition(p, LastLayout.sheet, LastLayout.placedParts,
                        partToPartDist, partToSheetDist, rotation) # null

\* Lines 277-290 and 333-345 with the trials of line 292 left out: the number
\* of bars the first-fit-decreasing passes cut a pool of cuts from.
RECURSIVE SpeedBars(_, _)
SpeedBars(pool, usable) ==
  IF pool = <<>> THEN 0
  ELSE LET greedyCuts == GreedyCuts(SortByLengthDesc(pool), 1, usable, <<>>)
           placedInstanceIds == {greedyCuts[k].instanceId : k \in 1..Len(greedyCuts)}
       IN IF greedyCuts = <<>> THEN 0
          ELSE 1 + SpeedBars(SelectSeq(pool, LAMBDA p : p.instanceId \notin placedInstanceIds),
                             usable)

\* The cuts first-fit-decreasing places from a pool: all of them unless a
\* bar comes out empty.
RECURSIVE SpeedUsed(_, _)
SpeedUsed(pool, usable) ==
  IF pool = <<>> THEN 0
  ELSE LET greedyCuts == GreedyCuts(SortByLengthDesc(pool), 1, usable, <<>>)
           placedInstanceIds == {greedyCuts[k].instanceId : k \in 1..Len(greedyCuts)}
       IN IF greedyCuts = <<>> THEN 0
          ELSE UsedLength(greedyCuts) +
               SpeedUsed(SelectSeq(pool, LAMBDA p : p.instanceId \notin placedInstanceIds),
                         usable)

\* totalStockUsed of the call in PRIORITIZE_SPEED mode on the rows of `parts`
\* (lines 350-352 over the groups of lines 258-347).
SpeedStockUsed ==
  LET keys == LinearGroupKeys(parts)
  IN SumSeq([g \in 1..Len(keys) |->
       SpeedBars(ExpandCuts(partsInGroup(parts, keys[g]), usableStockLength),
                 usableStockLength)])

\* totalWaste of the call in PRIORITIZE_SPEED mode (lines 350-359).
SpeedTotalWaste ==
  LET keys == LinearGroupKeys(parts)
  IN SpeedStockUsed * stockLength -
     SumSeq([g \in 1..Len(keys) |->
       SpeedUsed(ExpandCuts(partsInGroup(parts, keys[g]), usableStockLength),
                 usableStockLength)])

\* The operators above are the speed-mode call: its result carries them.
C30_SpeedReference ==
  (LinearDone /\ optimizationGoal = PRIORITIZE_SPEED) =>
    /\ result.totalStockUsed = SpeedStockUsed
    /\ result.totalWaste = SpeedTotalWaste

\* C30: waste minimization never costs extra stock: for every input and every
\* outcome of the shuffles, the call in MINIMIZE_WASTE mode returns a
\* totalStockUsed and a totalWaste no larger than the call in PRIORITIZE_SPEED
\* mode returns on the same input.
C30_NoExtraStock ==
  (LinearDone /\ optimizationGoal = MINIMIZE_WASTE) =>
    /\ result.totalStockUsed <= SpeedStockUsed
    /\ result.totalWaste <= SpeedTotalWaste

====
